---- MODULE Spec2Model ----
(***************************************************************************)
(* A model of the krb5-rust credential-cache and keytab readers.           *)
(*                                                                         *)
(* Strings are sequences of one-character strings, so that split_once,     *)
(* starts_with, find and slicing are computed on bytes as the code does.   *)
(* Files are sequences of bytes (0..255) read through a model of           *)
(* std::io::BufReader.                                                      *)
(***************************************************************************)
EXTENDS Integers, Sequences, FiniteSets, TLC

VARIABLES
    ctx,        \* Context: os_context and library_options (context.rs 49-68, 228-233)
    env,        \* the process environment variable KRB5CCNAME (Option<String>)
    profile,    \* libdefaults.default_ccache_name of the loaded Profile (Option<String>)
    os,         \* what the OS reports: real uid, effective uid, user name of the euid,
                \* whether cache files exist, and the byte order of the build target
    memCaches,  \* MEMORY_CACHES (credential_cache/memory_data.rs 18-19): name -> MemoryData
    last,       \* the last library call: its name, arguments and returned value
    cci,        \* the live CredentialCachesIter, and what it has yielded so far
    file,       \* the cache or keytab file on disk: what it holds and where it is cut
    fci,        \* the live CredentialsIter of a FILE cache, and what it has yielded so far
    threads,    \* the threads that call the MEMORY backends: where each one stands in
                \* resolve, its local variables, and the handles it was returned
    registry,   \* MEMORY_CACHES and MEMORY_KEYTABS as the threads share them:
                \* kind -> name -> handle (0: no entry)
    heap,       \* the Arc<Mutex<..>> allocations made so far; a handle is an index
    locks,      \* who holds the Mutex of each registry and of each allocation (0: free)
    klist       \* the klist process: its arguments, what it printed, its exit status

\* the state of the library calls made by one thread
libVars == <<ctx, env, profile, os, memCaches, last, cci, file, fci>>

\* the state shared by threads, and the klist process
procVars == <<threads, registry, heap, locks, klist>>

vars == <<ctx, env, profile, os, memCaches, last, cci, file, fci,
          threads, registry, heap, locks, klist>>

-----------------------------------------------------------------------------
(* Option<T> and Result<T, E>                                              *)

None == [some |-> FALSE, val |-> <<>>]

Some(x) == [some |-> TRUE, val |-> x]

Ok(x) == [ok |-> TRUE, val |-> x, err |-> "-"]

Err(e) == [ok |-> FALSE, val |-> <<>>, err |-> e]

\* `let x = e; K(x)`: e is evaluated once and K is applied to its value
Bind(e, K(_)) == CHOOSE r \in {K(x) : x \in {e}} : TRUE

Min(a, b) == IF a <= b THEN a ELSE b

Max(a, b) == IF a >= b THEN a ELSE b

-----------------------------------------------------------------------------
(* Bounds of the model                                                     *)

\* longest residual appended to a scheme when names are enumerated
MaxResidualLen == 2

-----------------------------------------------------------------------------
(* str primitives                                                          *)

\* u8::is_ascii_alphabetic
is_ascii_alphabetic(c) ==
    c \in {"A","B","C","D","E","F","G","H","I","J","K","L","M",
           "N","O","P","Q","R","S","T","U","V","W","X","Y","Z",
           "a","b","c","d","e","f","g","h","i","j","k","l","m",
           "n","o","p","q","r","s","t","u","v","w","x","y","z"}

\* str::starts_with
starts_with(s, p) == Len(s) >= Len(p) /\ SubSeq(s, 1, Len(p)) = p

\* &s[a..b] and &s[a..] with Rust's 0-based byte offsets
slice(s, a, b) == SubSeq(s, a + 1, b)

slice_from(s, a) == SubSeq(s, a + 1, Len(s))

\* str::find(pattern): Some(0-based byte offset of the first match) or None
find(s, p) ==
    Bind({i \in 0..(Len(s) - Len(p)) : slice(s, i, i + Len(p)) = p}, LAMBDA hits :
      IF hits = {} THEN None ELSE Some(CHOOSE i \in hits : \A j \in hits : i <= j))

\* Option::unwrap_or
unwrap_or(opt, default) == IF opt.some THEN opt.val ELSE default

\* str::split_once(':')
split_once(s, c) ==
    Bind(find(s, <<c>>), LAMBDA i :
      IF ~i.some THEN None
      ELSE Some(<<slice(s, 0, i.val), slice_from(s, i.val + 1)>>))

\* the digits of u32::to_string
Digit(d) == CASE d = 0 -> "0" [] d = 1 -> "1" [] d = 2 -> "2" [] d = 3 -> "3"
              [] d = 4 -> "4" [] d = 5 -> "5" [] d = 6 -> "6" [] d = 7 -> "7"
              [] d = 8 -> "8" [] d = 9 -> "9"

RECURSIVE to_string(_)
to_string(n) == IF n < 10 THEN <<Digit(n)>> ELSE to_string(n \div 10) \o <<Digit(n % 10)>>

-----------------------------------------------------------------------------
(* Program constants                                                       *)

FILE == <<"F","I","L","E">>

MEMORY == <<"M","E","M","O","R","Y">>

\* credential_cache.rs 18: "FILE:/tmp/krb5cc_%{uid}"
DEFCCNAME == FILE \o <<":","/","t","m","p","/","k","r","b","5","c","c","_","%","{","u","i","d","}">>

FCC_OPS == [prefix |-> FILE, kind |-> "FILE"]

MCC_OPS == [prefix |-> MEMORY, kind |-> "MEMORY"]

DFL_OPS == FCC_OPS

OPS_LIST == <<FCC_OPS, MCC_OPS>>

KRB5_LIBOPT_SYNC_KDCTIME == 1

KRB5_OS_TOFFSET_VALID == 1

KRB5_OS_TOFFSET_TIME == 2

-----------------------------------------------------------------------------
(* Flags (i32) arithmetic, on the non-negative values the model reaches    *)

RECURSIVE BitAnd(_, _)
BitAnd(a, b) ==
    IF a = 0 \/ b = 0 THEN 0
    ELSE (a % 2) * (b % 2) + 2 * BitAnd(a \div 2, b \div 2)

RECURSIVE BitOr(_, _)
BitOr(a, b) ==
    IF a = 0 THEN b
    ELSE IF b = 0 THEN a
    ELSE Max(a % 2, b % 2) + 2 * BitOr(a \div 2, b \div 2)

\* a & !mask
BitClear(a, mask) == a - BitAnd(a, mask)

-----------------------------------------------------------------------------
(* Context and OsContext                                                   *)

\* OsContext::new and the fields of Context::new the readers use
NewContext(sync) ==
    [ default_ccname  |-> None,
      time_offset     |-> 0,
      usec_offset     |-> 0,
      os_flags        |-> 0,
      library_options |-> IF sync THEN KRB5_LIBOPT_SYNC_KDCTIME ELSE 0 ]

\* Context::sync_kdctime
sync_kdctime(c) == BitAnd(c.library_options, KRB5_LIBOPT_SYNC_KDCTIME) > 0

\* OsContext::time_offset_valid
time_offset_valid(c) == BitAnd(c.os_flags, KRB5_OS_TOFFSET_VALID) > 1

\* OsContext::set_time_offset_valid
set_time_offset_valid(c) ==
    [c EXCEPT !.os_flags = BitOr(BitClear(c.os_flags, KRB5_OS_TOFFSET_TIME), KRB5_OS_TOFFSET_VALID)]

\* Context::set_default_ccname
set_default_ccname(c, name) == [c EXCEPT !.default_ccname = Some(name)]

\* Context::expand_token
expand_token(token, o) ==
    CASE token = <<"e","u","i","d">> -> Ok(to_string(o.euid))
      [] token = <<"u","s","e","r","n","a","m","e">> ->
            Ok(IF o.username.some THEN o.username.val ELSE to_string(o.euid))
      [] token = <<"u","i","d">> \/ token = <<"U","S","E","R","I","D">> -> Ok(to_string(o.uid))
      [] OTHER -> Err("Invalid argument")

\* Context::expand_path_tokens: the while loop, buf and path_remained
RECURSIVE expand_path_tokens_loop(_, _, _)
expand_path_tokens_loop(buf, path_remained, o) ==
    IF path_remained = <<>> THEN Ok(buf)
    ELSE
      Bind(find(path_remained, <<"%","{">>), LAMBDA token_begin :
        IF ~token_begin.some THEN Ok(buf \o path_remained)
        ELSE
          Bind(find(slice_from(path_remained, token_begin.val), <<"}">>), LAMBDA rel :
            IF ~rel.some THEN Err("Invalid argument")
            ELSE
              Bind(token_begin.val + rel.val, LAMBDA token_end :
              Bind(expand_token(slice(path_remained, token_begin.val + 2, token_end), o),
                LAMBDA token_value :
                  IF ~token_value.ok THEN token_value
                  ELSE
                    Bind(buf \o slice(path_remained, 0, token_begin.val) \o token_value.val,
                      LAMBDA buf2 :
                    Bind(slice_from(path_remained, token_end + 1), LAMBDA rest :
                      expand_path_tokens_loop(buf2, rest, o)))))))

expand_path_tokens(path, o) == expand_path_tokens_loop(<<>>, path, o)

-----------------------------------------------------------------------------
(* Credential-cache backends: resolve                                      *)
(* These operators take the context and the MEMORY registry and return     *)
(* both, as changed by the call, with the returned value in ret.           *)

\* credential_cache/file_data.rs, fn resolve: a new FILE cache named `name`
fcc_resolve(c, reg, name) ==
    [ctx |-> c, reg |-> reg, ret |-> Ok([type |-> FCC_OPS.prefix, name |-> name])]

\* credential_cache/memory_data.rs, fn create_memory_cache
create_memory_cache(name) ==
    [ name        |-> name,
      principal   |-> None,
      time_offset |-> 0,
      usec_offset |-> 0,
      credentials |-> <<>> ]

\* a resolve that, under SYNC_KDCTIME, copies the offsets of the context into
\* the cache
mcc_resolve_store(c, reg, name) ==
    Bind(IF name \in DOMAIN reg THEN reg ELSE reg @@ (name :> create_memory_cache(name)),
      LAMBDA reg2 :
        [ ctx |-> c,
          reg |-> IF sync_kdctime(c)
                  THEN [reg2 EXCEPT ![name].time_offset = c.time_offset,
                                    ![name].usec_offset = c.usec_offset]
                  ELSE reg2,
          ret |-> Ok([type |-> MCC_OPS.prefix, name |-> name]) ])

\* credential_cache/memory_data.rs, fn resolve (one thread)
mcc_resolve(c, reg, name) ==
    Bind(IF name \in DOMAIN reg THEN reg ELSE reg @@ (name :> create_memory_cache(name)),
      LAMBDA reg2 :
        [ ctx |-> IF sync_kdctime(c) /\ time_offset_valid(c)
                  THEN set_time_offset_valid(
                         [c EXCEPT !.time_offset = reg2[name].time_offset,
                                   !.usec_offset = reg2[name].usec_offset])
                  ELSE c,
          reg |-> reg2,
          ret |-> Ok([type |-> MCC_OPS.prefix, name |-> name]) ])

\* (ops.resolve)(context, residual)
ops_resolve(ops, c, reg, residual) ==
    IF ops.kind = "FILE" THEN fcc_resolve(c, reg, residual)
    ELSE mcc_resolve(c, reg, residual)

\* CredentialCache::resolve, lines 55-60: the (prefix, residual) the name is
\* dispatched with; direct is the early return through DFL_OPS
\* resolve with the drive-letter arm passing on the text after the ':'
resolve_split_strip(name) ==
    Bind(split_once(name, ":"), LAMBDA sp :
      IF ~sp.some THEN [direct |-> TRUE, prefix |-> <<>>, residual |-> name]
      ELSE IF Len(sp.val[1]) = 1 /\ is_ascii_alphabetic(sp.val[1][1])
           THEN [direct |-> FALSE, prefix |-> FILE, residual |-> sp.val[2]]
      ELSE [direct |-> FALSE, prefix |-> sp.val[1], residual |-> sp.val[2]])

resolve_split(name) ==
    Bind(split_once(name, ":"), LAMBDA sp :
      IF ~sp.some THEN [direct |-> TRUE, prefix |-> <<>>, residual |-> name]
      ELSE IF Len(sp.val[1]) = 1 /\ is_ascii_alphabetic(sp.val[1][1])
           THEN [direct |-> FALSE, prefix |-> FILE, residual |-> name]
      ELSE [direct |-> FALSE, prefix |-> sp.val[1], residual |-> sp.val[2]])

\* CredentialCache::resolve
CredentialCache_resolve(c, reg, name) ==
    Bind(resolve_split(name), LAMBDA d :
      IF d.direct THEN ops_resolve(DFL_OPS, c, reg, name)
      ELSE Bind({i \in 1..Len(OPS_LIST) : OPS_LIST[i].prefix = d.prefix}, LAMBDA matching :
        IF matching # {}
        THEN ops_resolve(OPS_LIST[CHOOSE i \in matching : \A j \in matching : i <= j],
                         c, reg, d.residual)
        ELSE IF DFL_OPS.prefix = d.prefix THEN ops_resolve(DFL_OPS, c, reg, d.residual)
        ELSE [ctx |-> c, reg |-> reg, ret |-> Err("KRB5_CC_UNKNOWN_TYPE")]))

\* CredentialCache::get_full_name
get_full_name(cache) == cache.type \o <<":">> \o cache.name

-----------------------------------------------------------------------------
(* Default cache name                                                      *)

\* default_name consulting KRB5CCNAME before the override
default_name_env_first(c, w) ==
    IF w.env.some
    THEN [ctx |-> set_default_ccname(c, w.env.val), ret |-> Ok(w.env.val)]
    ELSE IF c.default_ccname.some
    THEN [ctx |-> c, ret |-> Ok(c.default_ccname.val)]
    ELSE Bind(expand_path_tokens(unwrap_or(w.profile, DEFCCNAME), w.os), LAMBDA name :
           IF ~name.ok THEN [ctx |-> c, ret |-> name]
           ELSE [ctx |-> set_default_ccname(c, name.val), ret |-> name])

\* CredentialCache::default_name; w holds env, profile and os as read by the call
default_name(c, w) ==
    IF c.default_ccname.some THEN [ctx |-> c, ret |-> Ok(c.default_ccname.val)]
    ELSE IF w.env.some
         THEN [ctx |-> set_default_ccname(c, w.env.val), ret |-> Ok(w.env.val)]
    ELSE Bind(expand_path_tokens(unwrap_or(w.profile, DEFCCNAME), w.os), LAMBDA name :
           IF ~name.ok THEN [ctx |-> c, ret |-> name]
           ELSE [ctx |-> set_default_ccname(c, name.val), ret |-> name])

\* CredentialCache::default
CredentialCache_default(c, reg, w) ==
    Bind(default_name(c, w), LAMBDA dn :
      IF ~dn.ret.ok THEN [ctx |-> dn.ctx, reg |-> reg, ret |-> dn.ret]
      ELSE CredentialCache_resolve(dn.ctx, reg, dn.ret.val))

-----------------------------------------------------------------------------
(* Cross-backend enumeration                                               *)

\* the FILE backend taking only names that begin with FILE: or hold no ':'
fcc_candidate_no_colon(name) ==
    IF starts_with(name, FILE \o <<":">>) THEN Some(slice_from(name, 5))
    ELSE IF ~find(name, <<":">>).some THEN Some(name)
    ELSE None

\* credential_cache/file_data.rs, fn credential_caches_iter, lines 463-469:
\* the path the FILE backend looks at for a default name, if any
fcc_candidate(name) ==
    IF starts_with(name, FILE \o <<":">>) THEN Some(slice_from(name, 5))
    ELSE IF unwrap_or(find(name, <<":">>), 0) < 2 THEN Some(name)
    ELSE None

\* credential_cache/file_data.rs, fn credential_caches_iter.  w.os.file is
\* what Path::try_exists answers for the residual: "present", "absent", or
\* "denied" (an io::Error)
fcc_credential_caches_iter(c, reg, w) ==
    Bind(default_name(c, w), LAMBDA dn :
      IF ~dn.ret.ok
      THEN [ctx |-> dn.ctx, reg |-> reg, ret |-> Err(dn.ret.err)]
      ELSE Bind(fcc_candidate(dn.ret.val), LAMBDA residual :
        IF ~residual.some
        THEN [ctx |-> dn.ctx, reg |-> reg, ret |-> Ok(<<>>)]
        ELSE IF w.os.file = "denied"
        THEN [ctx |-> dn.ctx, reg |-> reg, ret |-> Err("io::Error")]
        ELSE IF w.os.file = "absent"
        THEN [ctx |-> dn.ctx, reg |-> reg, ret |-> Ok(<<>>)]
        ELSE Bind(CredentialCache_resolve(dn.ctx, reg, residual.val), LAMBDA r :
               [ctx |-> r.ctx, reg |-> r.reg, ret |-> Ok(<<r.ret>>)])))

\* credential_cache/memory_data.rs, fn credential_caches_iter
mcc_credential_caches_iter(c, reg, w) ==
    Bind(default_name(c, w), LAMBDA dn :
      IF ~dn.ret.ok
      THEN [ctx |-> dn.ctx, reg |-> reg, ret |-> Err(dn.ret.err)]
      ELSE IF ~starts_with(dn.ret.val, MEMORY \o <<":">>)
      THEN [ctx |-> dn.ctx, reg |-> reg, ret |-> Ok(<<>>)]
      ELSE Bind(CredentialCache_resolve(dn.ctx, reg, dn.ret.val), LAMBDA r :
             [ctx |-> r.ctx, reg |-> r.reg, ret |-> Ok(<<r.ret>>)]))

\* (ops.credential_caches_iter)(self.context, &self.ops_iter)
ops_credential_caches_iter(ops, c, reg, w) ==
    IF ops.kind = "FILE" THEN fcc_credential_caches_iter(c, reg, w)
    ELSE mcc_credential_caches_iter(c, reg, w)

\* CredentialCache::credential_caches_iter: ops_iter counts the backends
\* already taken from OPS_LIST.iter(), inner is self.credential_caches_iter
NewCachesIter == [ops_iter |-> 0, inner |-> None]

\* CredentialCachesIter::next, the two places that take the next backend:
\*   let ops = self.ops_iter.next()?;
\*   self.credential_caches_iter = (ops.credential_caches_iter)(...).ok();
CachesIter_advance(s, w) ==
    Bind(ops_credential_caches_iter(OPS_LIST[s.it.ops_iter + 1], s.ctx, s.reg, w),
      LAMBDA r :
        [ ctx |-> r.ctx, reg |-> r.reg,
          it  |-> [ ops_iter |-> s.it.ops_iter + 1,
                    inner    |-> IF r.ret.ok THEN Some(r.ret.val) ELSE None ] ])

\* CredentialCachesIter::next; s is [ctx, reg, it], the result adds ret: Option<Item>
RECURSIVE CachesIter_next(_, _)
CachesIter_next(s, w) ==
    IF ~s.it.inner.some /\ s.it.ops_iter >= Len(OPS_LIST)
    THEN [st |-> s, ret |-> None]
    ELSE
      Bind(IF ~s.it.inner.some THEN CachesIter_advance(s, w) ELSE s, LAMBDA s1 :
        IF ~s1.it.inner.some THEN [st |-> s1, ret |-> None]
        ELSE IF s1.it.inner.val # <<>>
        THEN [st  |-> [s1 EXCEPT !.it.inner = Some(Tail(s1.it.inner.val))],
              ret |-> Some(Head(s1.it.inner.val))]
        ELSE IF s1.it.ops_iter >= Len(OPS_LIST) THEN [st |-> s1, ret |-> None]
        ELSE Bind(CachesIter_advance(s1, w), LAMBDA s2 : CachesIter_next(s2, w)))

-----------------------------------------------------------------------------
(* The buffered reader of a cache or keytab file.  f is the open file: its *)
(* bytes and the byte order of the build target.  rd is the BufReader: off *)
(* is the offset of the next byte handed out, bend the offset up to which   *)
(* the file has been read into the buffer (off = bend: the buffer is empty) *)

\* BufReader::new: the capacity of the buffer (std's DEFAULT_BUF_SIZE)
BufCapacity == 8192

NewReader == [off |-> 0, bend |-> 0]

\* <BufReader<File> as Read>::read(&mut buf) with buf.len() = n: an empty
\* buffer and n >= capacity reads the file directly; otherwise an empty buffer
\* is refilled once and the call hands out what the buffer holds, at most n
reader_read(f, rd, n) ==
    IF rd.off = rd.bend /\ n >= BufCapacity
    THEN Bind(Min(n, Max(0, Len(f.bytes) - rd.off)), LAMBDA k :
           [ rd    |-> [off |-> rd.off + k, bend |-> rd.off + k],
             bytes |-> SubSeq(f.bytes, rd.off + 1, rd.off + k) ])
    ELSE Bind(IF rd.off = rd.bend
              THEN rd.bend + Min(BufCapacity, Max(0, Len(f.bytes) - rd.bend))
              ELSE rd.bend, LAMBDA bend :
         Bind(Min(n, bend - rd.off), LAMBDA k :
           [ rd    |-> [off |-> rd.off + k, bend |-> bend],
             bytes |-> SubSeq(f.bytes, rd.off + 1, rd.off + k) ]))

\* BufReader::seek_relative(n), n >= 0: inside the buffer only the position
\* moves; otherwise the file is sought (past its end too) and the buffer dropped
seek_relative(rd, n) ==
    IF rd.off + n <= rd.bend THEN [rd EXCEPT !.off = rd.off + n]
    ELSE [off |-> rd.off + n, bend |-> rd.off + n]

\* `r?` followed by K: r is [rd, ret]; an Err is returned as it is
Try(r, K(_, _)) ==
    CHOOSE x \in { IF r1.ret.ok THEN K(r1.rd, r1.ret.val)
                   ELSE [rd |-> r1.rd, ret |-> r1.ret] : r1 \in {r} } : TRUE

\* Option::ok_or(e) on the Option inside r
ok_or(r, e) ==
    Bind(r, LAMBDA r1 :
      IF r1.ret.ok /\ ~r1.ret.val.some THEN [rd |-> r1.rd, ret |-> Err(e)]
      ELSE IF r1.ret.ok THEN [rd |-> r1.rd, ret |-> Ok(r1.ret.val.val)]
      ELSE r1)

\* $type::from_be_bytes for 2 and 4 bytes; signed is i32.  Values are kept
\* below 2^31: the files read here hold no larger unsigned field
from_be_bytes(b, signed) ==
    IF Len(b) = 2 THEN b[1] * 256 + b[2]
    ELSE (((IF signed /\ b[1] >= 128 THEN b[1] - 256 ELSE b[1]) * 256 + b[2]) * 256 + b[3]) * 256 + b[4]

\* $type::from_le_bytes
from_le_bytes(b, signed) ==
    from_be_bytes([i \in 1..Len(b) |-> b[Len(b) + 1 - i]], signed)

\* macro read_int: Ok(None) unless the read call handed out all size bytes
read_int(f, rd, endianness, size, signed) ==
    Bind(reader_read(f, rd, size), LAMBDA r :
      IF Len(r.bytes) # size THEN [rd |-> r.rd, ret |-> Ok(None)]
      ELSE IF endianness = "Big" \/ (endianness = "Native" /\ f.native = "Big")
      THEN [rd |-> r.rd, ret |-> Ok(Some(from_be_bytes(r.bytes, signed)))]
      ELSE [rd |-> r.rd, ret |-> Ok(Some(from_le_bytes(r.bytes, signed)))])

read_u16(f, rd, endianness) == read_int(f, rd, endianness, 2, FALSE)

read_u32(f, rd, endianness) == read_int(f, rd, endianness, 4, FALSE)

read_i32(f, rd, endianness) == read_int(f, rd, endianness, 4, TRUE)

read_u8(f, rd) ==
    Bind(reader_read(f, rd, 1), LAMBDA r :
      [rd |-> r.rd, ret |-> Ok(IF Len(r.bytes) = 1 THEN Some(r.bytes[1]) ELSE None)])

-----------------------------------------------------------------------------
(* credential_cache/file_data.rs: reading a FILE cache                     *)

FILE_FIRST_BYTE == 5

FCC_TAG_DELTATIME == 1

\* NameType::UNKNOWN
NT_UNKNOWN == 0

\* impl TryFrom<u8> for FileFormatVersion
FileFormatVersion_try_from(value) ==
    IF value \in 1..4 THEN Ok(value) ELSE Err("KRB5_CCACHE_BADVNO")

\* read_version without the test of the first byte
read_version_any_first(f, rd) ==
    Try(read_u8(f, rd), LAMBDA rd1, first :
      Try(ok_or(read_u8(f, rd1), "KRB5_CC_FORMAT"), LAMBDA rd2, version :
             [rd |-> rd2, ret |-> FileFormatVersion_try_from(version)]))

\* FileData::read_version
read_version(f, rd) ==
    Try(read_u8(f, rd), LAMBDA rd1, first :
      IF ~(first.some /\ first.val = FILE_FIRST_BYTE) THEN [rd |-> rd1, ret |-> Err("KRB5_CC_FORMAT")]
      ELSE Try(ok_or(read_u8(f, rd1), "KRB5_CC_FORMAT"), LAMBDA rd2, version :
             [rd |-> rd2, ret |-> FileFormatVersion_try_from(version)]))

\* FileData::endianness
endianness(version) == IF version \in {1, 2} THEN "Native" ELSE "Big"

\* `r?` inside read_header, whose result carries the context as well
TryCtx(r, c, K(_, _)) ==
    CHOOSE x \in { IF r1.ret.ok THEN K(r1.rd, r1.ret.val)
                   ELSE [rd |-> r1.rd, ctx |-> c, ret |-> r1.ret] : r1 \in {r} } : TRUE

\* a FileData::read_header that leaves the two offsets of a DELTATIME field
\* unread once the context holds a valid offset
RECURSIVE read_header_loop_unread(_, _, _, _, _)
read_header_loop_unread(c, f, rd, e, header_size) ==
    IF ~(header_size > 0) THEN [rd |-> rd, ctx |-> c, ret |-> Ok(<<>>)]
    ELSE IF header_size < 4 THEN [rd |-> rd, ctx |-> c, ret |-> Err("KRB5_CC_FORMAT")]
    ELSE
      TryCtx(ok_or(read_u16(f, rd, e), "KRB5_CC_FORMAT"), c, LAMBDA rd1, tag :
      TryCtx(read_u16(f, rd1, e), c, LAMBDA rd2, field_size :
        IF ~(field_size.some /\ field_size.val <= header_size - 4)
        THEN [rd |-> rd2, ctx |-> c, ret |-> Err("KRB5_CC_FORMAT")]
        ELSE IF tag = FCC_TAG_DELTATIME
        THEN
          IF field_size.val # 8
          THEN [rd |-> rd2, ctx |-> c, ret |-> Err("KRB5_CC_FORMAT")]
          ELSE IF BitAnd(c.os_flags, KRB5_OS_TOFFSET_VALID) # 0
          THEN read_header_loop_unread(c, f, rd2, e, header_size - (4 + field_size.val))
          ELSE
            TryCtx(ok_or(read_i32(f, rd2, e), "KRB5_CC_FORMAT"), c, LAMBDA rd3, time_offset :
            TryCtx(ok_or(read_i32(f, rd3, e), "KRB5_CC_FORMAT"), c, LAMBDA rd4, usec_offset :
              Bind(IF sync_kdctime(c) /\ ~time_offset_valid(c)
                   THEN set_time_offset_valid([c EXCEPT !.time_offset = time_offset,
                                                        !.usec_offset = usec_offset])
                   ELSE c, LAMBDA c2 :
                read_header_loop_unread(c2, f, rd4, e, header_size - (4 + field_size.val)))))
        ELSE
          Bind(seek_relative(rd2, field_size.val), LAMBDA rd3 :
            read_header_loop_unread(c, f, rd3, e, header_size - (4 + field_size.val)))))

\* FileData::read_header: the while loop, from its test of header_size on
RECURSIVE read_header_loop(_, _, _, _, _)
read_header_loop(c, f, rd, e, header_size) ==
    IF ~(header_size > 0) THEN [rd |-> rd, ctx |-> c, ret |-> Ok(<<>>)]
    ELSE IF header_size < 4 THEN [rd |-> rd, ctx |-> c, ret |-> Err("KRB5_CC_FORMAT")]
    ELSE
      TryCtx(ok_or(read_u16(f, rd, e), "KRB5_CC_FORMAT"), c, LAMBDA rd1, tag :
      TryCtx(read_u16(f, rd1, e), c, LAMBDA rd2, field_size :
        IF ~(field_size.some /\ field_size.val <= header_size - 4)
        THEN [rd |-> rd2, ctx |-> c, ret |-> Err("KRB5_CC_FORMAT")]
        ELSE IF tag = FCC_TAG_DELTATIME
        THEN
          IF field_size.val # 8
          THEN [rd |-> rd2, ctx |-> c, ret |-> Err("KRB5_CC_FORMAT")]
          ELSE
            TryCtx(ok_or(read_i32(f, rd2, e), "KRB5_CC_FORMAT"), c, LAMBDA rd3, time_offset :
            TryCtx(ok_or(read_i32(f, rd3, e), "KRB5_CC_FORMAT"), c, LAMBDA rd4, usec_offset :
              Bind(IF sync_kdctime(c) /\ ~time_offset_valid(c)
                   THEN set_time_offset_valid([c EXCEPT !.time_offset = time_offset,
                                                        !.usec_offset = usec_offset])
                   ELSE c, LAMBDA c2 :
                read_header_loop(c2, f, rd4, e, header_size - (4 + field_size.val)))))
        ELSE
          Bind(seek_relative(rd2, field_size.val), LAMBDA rd3 :
            read_header_loop(c, f, rd3, e, header_size - (4 + field_size.val)))))

\* FileData::read_header
read_header(c, f, rd, e) ==
    TryCtx(ok_or(read_u16(f, rd, e), "KRB5_CC_FORMAT"), c, LAMBDA rd1, header_size :
      read_header_loop(c, f, rd1, e, header_size))

\* FileData::read_data
read_data(f, rd, e) ==
    Try(ok_or(read_u32(f, rd, e), "KRB5_CC_FORMAT"), LAMBDA rd1, size :
      Bind(reader_read(f, rd1, size), LAMBDA r :
        [rd |-> r.rd, ret |-> Ok(IF Len(r.bytes) = size THEN Some(r.bytes) ELSE None)]))

\* FileData::read_principal: for _ in 0..component_count
RECURSIVE read_components(_, _, _, _, _)
read_components(f, rd, e, component_count, components) ==
    IF component_count = 0 THEN [rd |-> rd, ret |-> Ok(components)]
    ELSE Try(ok_or(read_data(f, rd, e), "KRB5_CC_FORMAT"), LAMBDA rd1, component :
           Bind(Append(components, component), LAMBDA pushed :
             read_components(f, rd1, e, component_count - 1, pushed)))

\* FileData::read_principal.  A version 1 count of 0 is outside the files
\* read here (component_count -= 1 would overflow)
read_principal(f, rd, version) ==
    Try(IF version = 1 THEN [rd |-> rd, ret |-> Ok(Some(NT_UNKNOWN))]
        ELSE read_i32(f, rd, endianness(version)), LAMBDA rd1, name_type :
      IF ~name_type.some THEN [rd |-> rd1, ret |-> Ok(None)]
      ELSE
        Try(ok_or(read_u32(f, rd1, endianness(version)), "KRB5_CC_FORMAT"), LAMBDA rd2, count :
        Try(ok_or(read_data(f, rd2, endianness(version)), "KRB5_CC_FORMAT"), LAMBDA rd3, realm :
        Try(read_components(f, rd3, endianness(version),
                            IF version = 1 THEN count - 1 ELSE count, <<>>),
          LAMBDA rd4, components :
            [ rd  |-> rd4,
              ret |-> Ok(Some([ realm      |-> realm,
                                components |-> components,
                                name_type  |-> name_type.val ])) ]))))

\* FileData::read_up_to_principal
read_up_to_principal(c, f, rd) ==
    TryCtx(read_version(f, rd), c, LAMBDA rd1, version :
      Bind(IF version = 4 THEN read_header(c, f, rd1, endianness(version))
           ELSE [rd |-> rd1, ctx |-> c, ret |-> Ok(<<>>)], LAMBDA h :
        IF ~h.ret.ok THEN h
        ELSE TryCtx(read_principal(f, h.rd, version), h.ctx, LAMBDA rd2, principal :
               [ rd |-> rd2, ctx |-> h.ctx,
                 ret |-> Ok([version |-> version, principal |-> principal]) ])))

\* FileData::read_keyblock
read_keyblock(f, rd, version) ==
    Try(ok_or(read_u16(f, rd, endianness(version)), "KRB5_CC_FORMAT"), LAMBDA rd1, enctype :
    Try(IF version = 3 THEN ok_or(read_u16(f, rd1, endianness(version)), "KRB5_CC_FORMAT")
        ELSE [rd |-> rd1, ret |-> Ok(enctype)], LAMBDA rd2, again :
    Try(ok_or(read_data(f, rd2, endianness(version)), "KRB5_CC_FORMAT"), LAMBDA rd3, contents :
      [rd |-> rd3, ret |-> Ok([enctype |-> enctype, contents |-> contents])])))

\* FileData::read_ticket_times
read_ticket_times(f, rd, e) ==
    Try(ok_or(read_i32(f, rd, e), "KRB5_CC_FORMAT"), LAMBDA rd1, authtime :
    Try(ok_or(read_i32(f, rd1, e), "KRB5_CC_FORMAT"), LAMBDA rd2, starttime :
    Try(ok_or(read_u32(f, rd2, e), "KRB5_CC_FORMAT"), LAMBDA rd3, endtime :
    Try(ok_or(read_u32(f, rd3, e), "KRB5_CC_FORMAT"), LAMBDA rd4, renew_till :
      [ rd  |-> rd4,
        ret |-> Ok([ authtime |-> authtime, starttime |-> starttime,
                     endtime |-> endtime, renew_till |-> renew_till ]) ]))))

\* FileData::read_addresses and FileData::read_authdata: for _ in 0..count,
\* a 16-bit type and a data each
RECURSIVE read_typed_data(_, _, _, _, _)
read_typed_data(f, rd, e, count, items) ==
    IF count = 0 THEN [rd |-> rd, ret |-> Ok(items)]
    ELSE Try(ok_or(read_u16(f, rd, e), "KRB5_CC_FORMAT"), LAMBDA rd1, type :
         Try(ok_or(read_data(f, rd1, e), "KRB5_CC_FORMAT"), LAMBDA rd2, contents :
           Bind(Append(items, [type |-> type, contents |-> contents]), LAMBDA pushed :
             read_typed_data(f, rd2, e, count - 1, pushed))))

\* FileData::read_addresses
read_addresses(f, rd, e) ==
    Try(ok_or(read_u32(f, rd, e), "KRB5_CC_FORMAT"), LAMBDA rd1, count :
      read_typed_data(f, rd1, e, count, <<>>))

\* FileData::read_authdata
read_authdata(f, rd, e) ==
    Try(ok_or(read_u32(f, rd, e), "KRB5_CC_FORMAT"), LAMBDA rd1, count :
      read_typed_data(f, rd1, e, count, <<>>))

\* FileData::read_credential
read_credential(f, rd, version) ==
    Try(read_principal(f, rd, version), LAMBDA rd1, client :
      IF ~client.some THEN [rd |-> rd1, ret |-> Ok(None)]
      ELSE
        Try(read_principal(f, rd1, version), LAMBDA rd2, server :
          IF ~server.some THEN [rd |-> rd2, ret |-> Ok(None)]
          ELSE
            Try(read_keyblock(f, rd2, version), LAMBDA rd3, keyblock :
            Try(read_ticket_times(f, rd3, endianness(version)), LAMBDA rd4, times :
            Try(ok_or(read_u8(f, rd4), "KRB5_CC_FORMAT"), LAMBDA rd5, is_skey :
            Try(ok_or(read_i32(f, rd5, endianness(version)), "KRB5_CC_FORMAT"), LAMBDA rd6, ticket_flags :
            Try(read_addresses(f, rd6, endianness(version)), LAMBDA rd7, addresses :
            Try(read_authdata(f, rd7, endianness(version)), LAMBDA rd8, authdata :
            Try(ok_or(read_data(f, rd8, endianness(version)), "KRB5_CC_FORMAT"), LAMBDA rd9, ticket :
            Try(ok_or(read_data(f, rd9, endianness(version)), "KRB5_CC_FORMAT"), LAMBDA rd10, second_ticket :
              [ rd  |-> rd10,
                ret |-> Ok(Some([ client        |-> client.val,
                                  server        |-> server.val,
                                  keyblock      |-> keyblock,
                                  times         |-> times,
                                  is_skey       |-> is_skey > 0,
                                  ticket_flags  |-> ticket_flags,
                                  addresses     |-> addresses,
                                  ticket        |-> ticket,
                                  second_ticket |-> second_ticket,
                                  authdata      |-> authdata ])) ]))))))))))

\* credential.rs, Credential::is_removed
is_removed(credential) ==
    credential.times.endtime = 0 /\ credential.times.authtime = -1

\* CredentialsIter::next_entry
RECURSIVE next_entry(_, _, _)
next_entry(f, rd, version) ==
    Try(read_credential(f, rd, version), LAMBDA rd1, credential :
      IF ~credential.some THEN [rd |-> rd1, ret |-> Ok(None)]
      ELSE IF is_removed(credential.val) THEN next_entry(f, rd1, version)
      ELSE [rd |-> rd1, ret |-> Ok(Some(credential.val))])

\* Result<Option<T>>::transpose
transpose(ret) ==
    IF ~ret.ok THEN Some(ret)
    ELSE IF ret.val.some THEN Some(Ok(ret.val.val))
    ELSE None

\* <CredentialsIter as Iterator>::next
CredentialsIter_next(f, rd, version) ==
    Bind(next_entry(f, rd, version), LAMBDA r : [rd |-> r.rd, ret |-> transpose(r.ret)])

\* fn get_principal of the FILE backend; the result is [ctx, ret]
fcc_get_principal(c, f) ==
    Bind(read_up_to_principal(c, f, NewReader), LAMBDA r :
      IF ~r.ret.ok THEN [ctx |-> r.ctx, ret |-> r.ret]
      ELSE IF ~r.ret.val.principal.some THEN [ctx |-> r.ctx, ret |-> Err("KRB5_CC_FORMAT")]
      ELSE [ctx |-> r.ctx, ret |-> Ok(r.ret.val.principal.val)])

\* FileData::credentials_iter; the result is [ctx, ret], ret the new iterator
fcc_credentials_iter(c, f) ==
    Bind(read_up_to_principal(c, f, NewReader), LAMBDA r :
      IF ~r.ret.ok THEN [ctx |-> r.ctx, ret |-> r.ret]
      ELSE [ctx |-> r.ctx, ret |-> Ok([reader |-> r.rd, version |-> r.ret.val.version])])

-----------------------------------------------------------------------------
(* keytab/file_data.rs: opening a FILE keytab                              *)

\* impl TryFrom<u8> for FileFormatVersion (keytab)
kt_FileFormatVersion_try_from(value) ==
    IF value \in 1..2 THEN Ok(value) ELSE Err("KRB5_KEYTAB_BADVNO")

\* FileData::read_version (keytab)
kt_read_version(f, rd) ==
    Try(read_u8(f, rd), LAMBDA rd1, first :
      IF ~(first.some /\ first.val = FILE_FIRST_BYTE) THEN [rd |-> rd1, ret |-> Err("KRB5_KEYTAB_BADVNO")]
      ELSE Try(ok_or(read_u8(f, rd1), "KRB5_KEYTAB_BADVNO"), LAMBDA rd2, version :
             [rd |-> rd2, ret |-> kt_FileFormatVersion_try_from(version)]))

\* FileData::entries_iter (keytab) on a file that exists
kt_entries_iter(f) ==
    Try(kt_read_version(f, NewReader), LAMBDA rd1, version :
      [rd |-> rd1, ret |-> Ok([reader |-> rd1, version |-> version])])

-----------------------------------------------------------------------------
(* Cache files, written out byte by byte from what they hold                *)

\* a 16-bit integer in big-endian order
be16(n) == <<n \div 256, n % 256>>

\* a 32-bit integer, unsigned or two's complement, in big-endian order
be32(n) ==
    IF n >= 0
    THEN <<n \div 16777216, (n \div 65536) % 256, (n \div 256) % 256, n % 256>>
    ELSE <<128 + ((n + 2147483647) + 1) \div 16777216,
           (((n + 2147483647) + 1) \div 65536) % 256,
           (((n + 2147483647) + 1) \div 256) % 256,
           ((n + 2147483647) + 1) % 256>>

Reversed(b) == [i \in 1..Len(b) |-> b[Len(b) + 1 - i]]

\* an integer of size 2 or 4 in byte order e ("Big" or "Little")
enc_int(e, n, size) ==
    IF e = "Big" THEN (IF size = 2 THEN be16(n) ELSE be32(n))
    ELSE Reversed(IF size = 2 THEN be16(n) ELSE be32(n))

\* data ::= length (32 bits), value
enc_data(e, value) == enc_int(e, Len(value), 4) \o value

RECURSIVE Concat(_)
Concat(seqs) == IF seqs = <<>> THEN <<>> ELSE Head(seqs) \o Concat(Tail(seqs))

\* principal ::= name type [omitted in version 1], count of components
\* [includes realm in version 1], realm, components
enc_principal(version, e, p) ==
    (IF version = 1 THEN <<>> ELSE enc_int(e, p.name_type, 4))
    \o enc_int(e, IF version = 1 THEN Len(p.components) + 1 ELSE Len(p.components), 4)
    \o enc_data(e, p.realm)
    \o Concat([i \in 1..Len(p.components) |-> enc_data(e, p.components[i])])

\* keyblock ::= enctype (16 bits) [repeated twice in version 3], data
enc_keyblock(version, e, k) ==
    enc_int(e, k.enctype, 2)
    \o (IF version = 3 THEN enc_int(e, k.enctype, 2) ELSE <<>>)
    \o enc_data(e, k.contents)

\* addresses and authdata ::= count (32 bits), then a 16-bit type and a data each
enc_typed_data(e, items) ==
    enc_int(e, Len(items), 4)
    \o Concat([i \in 1..Len(items) |->
                 enc_int(e, items[i].type, 2) \o enc_data(e, items[i].contents)])

\* credential ::= client, server, keyblock, authtime, starttime, endtime,
\* renew_till, is_skey, ticket_flags, addresses, authdata, ticket, second_ticket
enc_credential(version, e, c) ==
    enc_principal(version, e, c.client)
    \o enc_principal(version, e, c.server)
    \o enc_keyblock(version, e, c.keyblock)
    \o enc_int(e, c.times.authtime, 4) \o enc_int(e, c.times.starttime, 4)
    \o enc_int(e, c.times.endtime, 4) \o enc_int(e, c.times.renew_till, 4)
    \o <<IF c.is_skey THEN 1 ELSE 0>>
    \o enc_int(e, c.ticket_flags, 4)
    \o enc_typed_data(e, c.addresses)
    \o enc_typed_data(e, c.authdata)
    \o enc_data(e, c.ticket)
    \o enc_data(e, c.second_ticket)

\* the version 4 header: its announced size, then tag, length and value of
\* each field, always big-endian
enc_header(h) ==
    be16(h.size)
    \o Concat([i \in 1..Len(h.fields) |->
                 be16(h.fields[i].tag) \o be16(h.fields[i].len) \o h.fields[i].value])

\* the byte order a file of this version is written in on this machine
FileOrder(version, native) == IF version \in {1, 2} THEN native ELSE "Big"

-----------------------------------------------------------------------------
(* ASCII: str::as_bytes and back                                           *)

\* the printable ASCII characters, from 32 to 126 (the double quote, the
\* backslash and the backtick, which no name of the model holds, by name)
AsciiChars ==
    << " ", "!", "dquote", "#", "$", "%", "&", "'", "(", ")", "*", "+", ",", "-", ".", "/",
       "0", "1", "2", "3", "4", "5", "6", "7", "8", "9", ":", ";", "<", "=", ">", "?",
       "@", "A", "B", "C", "D", "E", "F", "G", "H", "I", "J", "K", "L", "M", "N", "O",
       "P", "Q", "R", "S", "T", "U", "V", "W", "X", "Y", "Z", "[", "bslash", "]", "^", "_",
       "btick", "a", "b", "c", "d", "e", "f", "g", "h", "i", "j", "k", "l", "m", "n", "o",
       "p", "q", "r", "s", "t", "u", "v", "w", "x", "y", "z", "{", "|", "}", "~" >>

\* the byte of a character
byte_of(c) == 31 + (CHOOSE i \in 1..Len(AsciiChars) : AsciiChars[i] = c)

\* str::as_bytes
as_bytes(s) == [i \in 1..Len(s) |-> byte_of(s[i])]

-----------------------------------------------------------------------------
(* ticket.rs: decoding the DER of a Ticket.  Lengths are decoded in the    *)
(* short form and in the long forms of one and two bytes.                 *)

\* r?; K(value of r)
AndThen(r, K(_)) == CHOOSE x \in {IF r1.ok THEN K(r1.val) ELSE r1 : r1 \in {r}} : TRUE

\* a?, b?, ...: the first error of the results rs in their order, or else
\* their values
Collect(rs) ==
    CHOOSE x \in { IF \A i \in DOMAIN q : q[i].ok THEN Ok([i \in DOMAIN q |-> q[i].val])
                   ELSE q[CHOOSE i \in DOMAIN q : ~q[i].ok /\ \A j \in 1..(i - 1) : q[j].ok] :
                   q \in {rs} } : TRUE

BerValueError == "BerValueError"

\* one DER object at the start of b: its identifier byte, its content and the
\* bytes after it
der_object(b) ==
    IF Len(b) < 2 THEN Err("Incomplete")
    ELSE IF b[2] < 128
    THEN IF Len(b) < 2 + b[2] THEN Err("Incomplete")
         ELSE Ok([id |-> b[1], content |-> SubSeq(b, 3, 2 + b[2]), rest |-> SubSeq(b, 3 + b[2], Len(b))])
    ELSE IF b[2] = 129
    THEN IF Len(b) < 3 \/ b[3] < 128 THEN Err("DerConstraintFailed")
         ELSE IF Len(b) < 3 + b[3] THEN Err("Incomplete")
         ELSE Ok([id |-> b[1], content |-> SubSeq(b, 4, 3 + b[3]), rest |-> SubSeq(b, 4 + b[3], Len(b))])
    ELSE IF b[2] = 130
    THEN IF Len(b) < 4 \/ b[3] = 0 THEN Err("DerConstraintFailed")
         ELSE IF Len(b) < 4 + b[3] * 256 + b[4] THEN Err("Incomplete")
         ELSE Ok([id |-> b[1], content |-> SubSeq(b, 5, 4 + b[3] * 256 + b[4]),
                  rest |-> SubSeq(b, 5 + b[3] * 256 + b[4], Len(b))])
    ELSE Err("InvalidLength")

\* a DER object whose identifier byte must be id
der_expect(b, id) ==
    CHOOSE x \in { IF o.ok /\ o.val.id # id THEN Err("UnexpectedTag") ELSE o : o \in {der_object(b)} } : TRUE

\* the DER objects that fill b
RECURSIVE der_objects(_)
der_objects(b) ==
    CHOOSE x \in { IF b1 = <<>> THEN Ok(<<>>)
                   ELSE CHOOSE y \in { IF ~o.ok THEN o
                                       ELSE CHOOSE z \in { IF ~os2.ok THEN os2 ELSE Ok(<<o.val>> \o os2.val) :
                                                           os2 \in {der_objects(o.val.rest)} } : TRUE :
                                       o \in {der_object(b1)} } : TRUE :
                   b1 \in {b} } : TRUE

\* parse_der_sequence(..)?.as_sequence()?: the objects of a SEQUENCE (0x30)
parse_der_sequence(b) ==
    CHOOSE x \in { IF ~o.ok THEN o ELSE der_objects(o.val.content) : o \in {der_expect(b, 48)} } : TRUE

\* BerObjectContent::Unknown(content) => content.data: an object of another
\* class than universal hands out its content
unknown_content(o) == IF o.id \div 64 # 0 THEN Ok(o.content) ELSE Err(BerValueError)

\* the value of the content bytes of an INTEGER, up to four bytes
RECURSIVE der_unsigned(_)
der_unsigned(c) == IF c = <<>> THEN 0 ELSE der_unsigned(SubSeq(c, 1, Len(c) - 1)) * 256 + c[Len(c)]

\* the content of an INTEGER of up to four bytes as a signed number
der_signed(c) ==
    IF c[1] < 128 THEN der_unsigned(c)
    ELSE IF Len(c) = 1 THEN der_unsigned(c) - 256
    ELSE IF Len(c) = 2 THEN der_unsigned(c) - 65536
    ELSE IF Len(c) = 3 THEN der_unsigned(c) - 16777216
    ELSE der_unsigned(<<c[1] - 128>> \o Tail(c)) - 2147483647 - 1

\* parse_der_i32: an INTEGER (0x02) that fits 32 bits
parse_der_i32(b) ==
    CHOOSE x \in { IF ~o.ok THEN o
                   ELSE IF Len(o.val.content) \notin 1..4 THEN Err("IntegerTooLarge")
                   ELSE Ok(der_signed(o.val.content)) : o \in {der_expect(b, 2)} } : TRUE

\* parse_der_u32: an INTEGER (0x02) that is not negative
parse_der_u32(b) ==
    CHOOSE x \in { IF ~o.ok THEN o
                   ELSE IF Len(o.val.content) \notin 1..4 THEN Err("IntegerTooLarge")
                   ELSE IF o.val.content[1] >= 128 THEN Err("IntegerNegative")
                   ELSE Ok(der_unsigned(o.val.content)) : o \in {der_expect(b, 2)} } : TRUE

\* as_str(): the bytes of a string object must be text
as_str(c) == IF \A i \in 1..Len(c) : c[i] < 128 THEN Ok(c) ELSE Err("StringInvalidCharset")

\* parse_der_generalstring(..)?.as_str()?: a GeneralString (0x1b)
parse_der_generalstring(b) ==
    CHOOSE x \in { IF ~o.ok THEN o ELSE as_str(o.val.content) : o \in {der_expect(b, 27)} } : TRUE

\* the for loop of ticket.rs 74-76 over the components
RECURSIVE ticket_components(_)
ticket_components(objs) ==
    IF objs = <<>> THEN Ok(<<>>)
    ELSE IF Head(objs).id # 27 THEN Err(BerValueError)
    ELSE CHOOSE x \in { IF ~c.ok THEN c
                        ELSE CHOOSE y \in { IF ~cs.ok THEN cs ELSE Ok(<<c.val>> \o cs.val) :
                                            cs \in {ticket_components(Tail(objs))} } : TRUE :
                        c \in {as_str(Head(objs).content)} } : TRUE

\* parse(o.content.data)?: the field inside a context-tagged object, read by
\* one of the parsers above
tagged_i32(o) == IF o.id \div 64 # 0 THEN parse_der_i32(o.content) ELSE Err(BerValueError)

tagged_u32(o) == IF o.id \div 64 # 0 THEN parse_der_u32(o.content) ELSE Err(BerValueError)

tagged_generalstring(o) == IF o.id \div 64 # 0 THEN parse_der_generalstring(o.content) ELSE Err(BerValueError)

tagged_sequence(o) == IF o.id \div 64 # 0 THEN parse_der_sequence(o.content) ELSE Err(BerValueError)

tagged_octetstring(o) == IF o.id \div 64 # 0 THEN der_expect(o.content, 4) ELSE Err(BerValueError)

\* ticket.rs 44-76: the server principal of the ticket
ticket_principal(o) ==
    CHOOSE x \in { IF ~principal.ok THEN principal
                   ELSE IF Len(principal.val) # 2 THEN Err(BerValueError)
                   ELSE CHOOSE y \in { IF ~p.ok THEN p
                                       ELSE IF Len(p.val[2]) # p.val[1] THEN Err(BerValueError)
                                       ELSE ticket_components(p.val[2]) :
                                       p \in {Collect(<<tagged_i32(principal.val[1]),
                                                        tagged_sequence(principal.val[2])>>)} } : TRUE :
                   principal \in {tagged_sequence(o)} } : TRUE

\* ticket.rs 78-116: the encrypted part of the ticket
ticket_enc_part(o) ==
    CHOOSE x \in { IF ~encrypted_data.ok THEN encrypted_data
                   ELSE IF Len(encrypted_data.val) # 3 THEN Err(BerValueError)
                   ELSE CHOOSE y \in { IF ~p.ok THEN p
                                       ELSE Ok([enctype |-> p.val[1], kvno |-> p.val[2],
                                                ciphertext |-> p.val[3].content]) :
                                       p \in {Collect(<<tagged_i32(encrypted_data.val[1]),
                                                        tagged_u32(encrypted_data.val[2]),
                                                        tagged_octetstring(encrypted_data.val[3])>>)} } : TRUE :
                   encrypted_data \in {tagged_sequence(o)} } : TRUE

\* Ticket::try_from(any)
Ticket_try_from(data) ==
    CHOOSE x \in { IF ~seq.ok THEN seq
                   ELSE IF Len(seq.val) # 4 THEN Err(BerValueError)
                   ELSE CHOOSE y \in { IF ~p.ok THEN p
                                       ELSE Ok([ server   |-> [realm |-> p.val[2], components |-> p.val[3],
                                                               name_type |-> 1],
                                                 enc_part |-> p.val[4] ]) :
                                       p \in {Collect(<<tagged_i32(seq.val[1]),
                                                        tagged_generalstring(seq.val[2]),
                                                        ticket_principal(seq.val[3]),
                                                        ticket_enc_part(seq.val[4])>>)} } : TRUE :
                   seq \in {parse_der_sequence(data)} } : TRUE

\* Ticket::decode_from: from_der reads one object, check_constraints wants
\* class application, constructed, tag 1 (0x61), try_from reads its content
decode_from(data) ==
    CHOOSE x \in { IF ~any.ok THEN any
                   ELSE IF any.val.id # 97 THEN Err("UnexpectedTag")
                   ELSE Ticket_try_from(any.val.content) : any \in {der_object(data)} } : TRUE

-----------------------------------------------------------------------------
(* credential_cache/credential.rs                                          *)

CONF_REALM == <<"X", "-", "C", "A", "C", "H", "E", "C", "O", "N", "F", ":">>

CONF_NAME ==
    <<"k", "r", "b", "5", "_", "c", "c", "a", "c", "h", "e", "_", "c", "o", "n", "f", "_", "d", "a", "t", "a">>

\* Credential::is_config
is_config(cred) ==
    IF cred.server.realm # as_bytes(CONF_REALM) THEN FALSE
    ELSE Len(cred.server.components) > 0 /\ cred.server.components[1] = as_bytes(CONF_NAME)

\* a get_ticket that decodes the ticket of every credential
get_ticket_decode_all(cred) ==
    Bind(decode_from(cred.ticket), LAMBDA r :
      [ decoded |-> Some(cred.ticket), ret |-> IF r.ok THEN Ok(Some(r.val)) ELSE r ])

\* Credential::get_ticket.  decoded is what was passed to Ticket::decode_from,
\* if anything; Some(result).transpose() turns Err(e) into Err(e)
get_ticket(cred) ==
    IF is_config(cred) THEN [decoded |-> None, ret |-> Ok(None)]
    ELSE Bind(decode_from(cred.ticket), LAMBDA r :
           [ decoded |-> Some(cred.ticket), ret |-> IF r.ok THEN Ok(Some(r.val)) ELSE r ])

-----------------------------------------------------------------------------
(* Tickets, written out in DER                                             *)

\* an object with identifier byte id and a content below 128 bytes
der(id, content) == <<id, Len(content)>> \o content

\* a Ticket: [APPLICATION 1] SEQUENCE { [0] tkt-vno, [1] realm, [2] sname,
\* [3] enc-part }
enc_ticket(t) ==
    der(97, der(48,
        der(160, der(2, <<5>>))
     \o der(161, der(27, t.server.realm))
     \o der(162, der(48,
            der(160, der(2, <<t.server.name_type>>))
         \o der(161, der(48, Concat([i \in 1..Len(t.server.components) |->
                                        der(27, t.server.components[i])])))))
     \o der(163, der(48,
            der(160, der(2, <<t.enc_part.enctype>>))
         \o der(161, der(2, <<t.enc_part.kvno>>))
         \o der(162, der(4, t.enc_part.ciphertext))))))

-----------------------------------------------------------------------------
(* The principals and credentials of the cache files                       *)

\* versions other than 1..4 are laid out like version 3
Layout(version) == IF version \in 1..4 THEN version ELSE 3

\* the default principal of a file
DefaultPrincipal(version) ==
    [ realm |-> <<82>>, components |-> <<<<117>>>>,
      name_type |-> IF version = 1 THEN NT_UNKNOWN ELSE 1 ]

Zeros(n) == [i \in 1..n |-> 0]

KRB5_TGS_NAME == <<"k", "r", "b", "t", "g", "t">>

\* the kinds of configuration entry: with a key, with no component after
\* krb5_ccache_conf_data, and with a key and a principal
ConfigKinds == {"config", "config1", "config3"}

\* the server of the credential of a kind: the local ticket-granting service
\* krbtgt/R@R, that of another realm krbtgt/S@R, a configuration entry with
\* key k, or the service s/id@R
Server(version, cd) ==
    [ realm      |-> IF cd.kind \in ConfigKinds THEN as_bytes(CONF_REALM) ELSE <<82>>,
      components |-> IF cd.kind \in {"tgt", "old_tgt"} THEN <<as_bytes(KRB5_TGS_NAME), <<82>>>>
                     ELSE IF cd.kind = "foreign" THEN <<as_bytes(KRB5_TGS_NAME), <<83>>>>
                     ELSE IF cd.kind = "config" THEN <<as_bytes(CONF_NAME), <<107>>>>
                     ELSE IF cd.kind = "config1" THEN <<as_bytes(CONF_NAME)>>
                     ELSE IF cd.kind = "config3" THEN <<as_bytes(CONF_NAME), <<107>>, <<112>>>>
                     ELSE <<<<115>>, <<cd.id>>>>,
      name_type  |-> IF version = 1 THEN NT_UNKNOWN ELSE 2 ]

NT_SRV_INST == 2
NT_SRV_HST == 3

\* the ticket a KDC issued for a server, under a name type
TicketFor(server, name_type) ==
    [ server   |-> [server EXCEPT !.name_type = name_type],
      enc_part |-> [enctype |-> 18, kvno |-> 1, ciphertext |-> <<9>>] ]

\* the kinds of credential whose ticket field holds the DER of a ticket:
\* that of "host" names its server as a host-based service (NT_SRV_HST), the
\* others as a service with an instance (NT_SRV_INST)
TicketKinds == {"tgt", "old_tgt", "foreign", "service", "old", "host"}

\* the credential a file holds for [id, kind, pad]: "removed" has endtime 0
\* and authtime -1, "end0" and "auth" have one of the two, "rich" has an
\* address and two authdata; the ticket of these and of "live" is pad zero
\* bytes and the id, which is no DER.  "tgt", "foreign", "service" and "host"
\* end at 7, "old_tgt" and "old" at 3, and hold a ticket for their server; "config"
\* has every time zero and its value in the ticket field
Credential(version, cd) ==
    [ client        |-> DefaultPrincipal(version),
      server        |-> Server(version, cd),
      keyblock      |-> [enctype |-> 18, contents |-> <<cd.id>>],
      times         |-> [ authtime   |-> IF cd.kind \in {"removed", "auth"} THEN -1
                                         ELSE IF cd.kind \in ConfigKinds THEN 0 ELSE 5,
                          starttime  |-> IF cd.kind \in ConfigKinds THEN 0 ELSE 6,
                          endtime    |-> IF cd.kind \in {"removed", "end0"} \cup ConfigKinds THEN 0
                                         ELSE IF cd.kind \in {"old_tgt", "old"} THEN 3 ELSE 7,
                          renew_till |-> 0 ],
      is_skey       |-> FALSE,
      ticket_flags  |-> cd.id,
      addresses     |-> IF cd.kind = "rich" THEN <<[type |-> 2, contents |-> <<127, 0, 0, 1>>]>>
                        ELSE <<>>,
      ticket        |-> IF cd.kind \in TicketKinds
                        THEN enc_ticket(TicketFor(Server(version, cd),
                                                   IF cd.kind = "host" THEN NT_SRV_HST ELSE NT_SRV_INST))
                        ELSE Zeros(cd.pad) \o <<cd.id>>,
      second_ticket |-> <<>>,
      authdata      |-> IF cd.kind = "rich"
                        THEN <<[type |-> 1, contents |-> <<>>], [type |-> 3, contents |-> <<9>>]>>
                        ELSE <<>> ]

\* the bytes of the file d up to and including its default principal
PrefixBytes(d, native) ==
    <<d.first, d.version>>
    \o (IF d.version = 4 THEN enc_header(d.header) ELSE <<>>)
    \o enc_principal(Layout(d.version), FileOrder(d.version, native),
                     DefaultPrincipal(Layout(d.version)))

\* the bytes of the first k credentials of the file d
CredentialBytes(d, native, k) ==
    Concat([i \in 1..k |->
              enc_credential(Layout(d.version), FileOrder(d.version, native),
                             Credential(Layout(d.version), d.creds[i]))])

\* data ::= length (16 bits), value (keytab)
enc_kt_data(e, value) == enc_int(e, Len(value), 2) \o value

\* the keytab entry of [kind, id, enctype, keylen, vno32, slack]: the key of
\* s/id@R, of keylen bytes, with the 8-bit key version id
KtEntry(version, rd) ==
    [ principal |-> [ realm |-> <<82>>, components |-> <<<<115>>, <<rd.id>>>>,
                      name_type |-> IF version = 1 THEN NT_UNKNOWN ELSE 1 ],
      timestamp |-> 4,
      vno       |-> rd.id,
      key       |-> [ enctype  |-> rd.enctype,
                      contents |-> SubSeq(<<rd.id, 0>> \o Zeros(Max(0, rd.keylen - 2)), 1, rd.keylen) ] ]

\* entry ::= principal, timestamp, key version (8 bits), enctype, key; the
\* principal is the count of components [includes realm in version 1], the
\* realm, the components and the name type [omitted in version 1]
enc_kt_entry(version, e, entry) ==
    enc_int(e, IF version = 1 THEN Len(entry.principal.components) + 1
               ELSE Len(entry.principal.components), 2)
    \o enc_kt_data(e, entry.principal.realm)
    \o Concat([i \in 1..Len(entry.principal.components) |->
                 enc_kt_data(e, entry.principal.components[i])])
    \o (IF version = 1 THEN <<>> ELSE enc_int(e, entry.principal.name_type, 4))
    \o enc_int(e, entry.timestamp, 4)
    \o <<entry.vno>>
    \o enc_int(e, entry.key.enctype, 2)
    \o enc_kt_data(e, entry.key.contents)

\* a record of a keytab: a hole of slack zero bytes under the length -slack,
\* the length 0 that ends the file, the length i32::MIN, or an entry, its
\* 32-bit key version if vno32 is not -1, and slack zero bytes, under the
\* length of all of them
enc_kt_record(version, e, rd) ==
    IF rd.kind = "hole" THEN enc_int(e, 0 - rd.slack, 4) \o Zeros(rd.slack)
    ELSE IF rd.kind = "end" THEN enc_int(e, 0, 4)
    ELSE IF rd.kind = "min" THEN enc_int(e, -2147483647 - 1, 4)
    ELSE Bind(enc_kt_entry(version, e, KtEntry(version, rd))
                \o (IF rd.vno32 = -1 THEN <<>> ELSE enc_int(e, rd.vno32, 4))
                \o Zeros(rd.slack), LAMBDA body :
           enc_int(e, Len(body), 4) \o body)

\* the whole keytab file as it was written
KeytabBytes(d, native) ==
    <<d.first, d.version>>
    \o Concat([i \in 1..Len(d.records) |->
                 enc_kt_record(d.version, IF d.version = 1 THEN native ELSE "Big", d.records[i])])

\* the whole file as it was written
FullBytes(d, native) ==
    IF "records" \in DOMAIN d THEN KeytabBytes(d, native)
    ELSE PrefixBytes(d, native) \o CredentialBytes(d, native, Len(d.creds))

\* the file on disk: cut = -1 is the whole file, otherwise only its first
\* cut bytes are there
Bytes(d, native) ==
    IF d.cut = -1 THEN FullBytes(d, native) ELSE SubSeq(FullBytes(d, native), 1, d.cut)

-----------------------------------------------------------------------------
(* Inputs                                                                  *)

\* every sequence over S of length at most n
SeqsUpTo(S, n) == UNION {[1..k -> S] : k \in 0..n}

\* what a cache name may start with: nothing, the two backends, a drive
\* letter, a one-byte prefix that is no letter, and an unknown backend
Schemes ==
    { <<>>, FILE \o <<":">>, MEMORY \o <<":">>, <<"C",":">>, <<"1",":">>, <<"K","R",":">> }

ResidualChars == {"a", ":"}

\* the names given to resolve, set_default_ccname and KRB5CCNAME
Names == {s \o r : s \in Schemes, r \in SeqsUpTo(ResidualChars, MaxResidualLen)}

\* the names KRB5CCNAME takes while a context is in use
EnvNames == {s \o r : s \in Schemes, r \in SeqsUpTo({"a"}, 1)}

\* values of libdefaults.default_ccache_name: absent, with each known token,
\* with an unknown token, with an unterminated token, and without tokens
ProfileValues ==
    { None,
      Some(MEMORY \o <<":","%","{","e","u","i","d","}">>),
      Some(FILE \o <<":","/","%","{","u","s","e","r","n","a","m","e","}","%","{","U","S","E","R","I","D","}">>),
      Some(<<"/","a","%","{","x","}">>),
      Some(<<"a","%","{","u","i","d">>),
      Some(<<"/","a">>) }

\* the process's ids and login name, what the file system answers when asked
\* whether a cache file exists, and the byte order of the build target
OsStates ==
    { [uid |-> 0,  euid |-> 0, username |-> Some(<<"r">>), file |-> "present", native |-> "Little"],
      [uid |-> 12, euid |-> 7, username |-> None,          file |-> "present", native |-> "Big"] }

FileStates == {"present", "absent", "denied"}

\* the largest number of entries the MEMORY registry grows to
MaxMemCaches == 2

\* the largest number of next() calls on one CredentialCachesIter
MaxNexts == 4

NoResult == Err("-")

NoCachesIter == [live |-> FALSE, it |-> NewCachesIter, log |-> <<>>]

\* env, profile and os as a call reads them
World == [env |-> env, profile |-> profile, os |-> os]

-----------------------------------------------------------------------------
(* The cache files the reader is given                                     *)

\* an empty file
NoFile ==
    [first |-> 5, version |-> 4, header |-> [size |-> 0, fields |-> <<>>], creds |-> <<>>, cut |-> 0]

NoCredIter == [live |-> FALSE, reader |-> NewReader, version |-> 0, log |-> <<>>]

\* the defined header field: the time offset of the KDC
DeltaTime(time_offset, usec_offset) ==
    [tag |-> FCC_TAG_DELTATIME, len |-> 8, value |-> be32(time_offset) \o be32(usec_offset)]

\* a header field with a tag no reader knows
UnknownField(len) == [tag |-> 2, len |-> len, value |-> Zeros(len)]

RECURSIVE FieldsSize(_)
FieldsSize(fields) ==
    IF fields = <<>> THEN 0 ELSE 4 + Len(Head(fields).value) + FieldsSize(Tail(fields))

\* a header that announces the size of the fields it holds
Header(fields) == [size |-> FieldsSize(fields), fields |-> fields]

\* the fields of a header tile its announced size, each field holds as many
\* bytes as it declares, and a DELTATIME field declares 8
Tiles(h) ==
    /\ h.size = FieldsSize(h.fields)
    /\ \A i \in 1..Len(h.fields) :
         /\ h.fields[i].len = Len(h.fields[i].value)
         /\ h.fields[i].tag = FCC_TAG_DELTATIME => h.fields[i].len = 8

TilingHeaders ==
    { Header(fs) : fs \in { <<>>,
                            <<DeltaTime(1, 2)>>,
                            <<DeltaTime(3, 4)>>,
                            <<DeltaTime(-5, 6)>>,
                            <<UnknownField(0)>>,
                            <<UnknownField(3)>>,
                            <<UnknownField(3), DeltaTime(1, 2)>>,
                            <<DeltaTime(3, 4), UnknownField(1)>>,
                            <<DeltaTime(1, 2), DeltaTime(3, 4)>> } }

\* a DELTATIME field of length 4 and of length 12, 1 to 3 bytes left over
\* after the last field, a size of 2, and a field longer than what is left
MalformedHeaders ==
    { [size |-> 8,  fields |-> <<[tag |-> FCC_TAG_DELTATIME, len |-> 4, value |-> Zeros(4)]>>],
      [size |-> 16, fields |-> <<[tag |-> FCC_TAG_DELTATIME, len |-> 12, value |-> Zeros(12)]>>],
      [size |-> 13, fields |-> <<DeltaTime(1, 2)>>],
      [size |-> 14, fields |-> <<DeltaTime(1, 2)>>],
      [size |-> 15, fields |-> <<DeltaTime(1, 2)>>],
      [size |-> 2,  fields |-> <<>>],
      [size |-> 8,  fields |-> <<[tag |-> 2, len |-> 8, value |-> Zeros(8)]>>],
      [size |-> 4,  fields |-> <<DeltaTime(1, 2)>>] }

\* version 4 files with each header and no credential: whole, and cut at each
\* place from the end of the version bytes to the last byte of the header
HeaderFiles ==
    UNION { { [first |-> 5, version |-> 4, header |-> h, creds |-> <<>>, cut |-> c] :
                c \in {-1} \cup 2..(3 + h.size) } : h \in TilingHeaders }
    \cup
    { [first |-> 5, version |-> 4, header |-> h, creds |-> <<>>, cut |-> -1] :
        h \in MalformedHeaders }

\* the largest number of credentials of a file that is cut at every place
MaxCreds == 2

\* the largest number of next() calls on one CredentialsIter
MaxReads == 3

\* the credentials of a file: live and removed ones in every place, and one
\* credential of each other kind
CredLists ==
    UNION { { [i \in 1..n |-> [id |-> i, kind |-> ks[i], pad |-> 0]] :
                ks \in [1..n -> {"live", "removed"}] } : n \in 0..MaxCreds }
    \cup { <<[id |-> 1, kind |-> k, pad |-> 0]>> : k \in {"rich", "end0", "auth"} }

\* files of every version with a well-formed header
WholeFiles ==
    { [first |-> 5, version |-> v, header |-> Header(<<DeltaTime(1, 2)>>), creds |-> cs, cut |-> -1] :
        v \in 1..4, cs \in CredLists }

\* files with another first byte or a version outside 1..4
BadMagicFiles ==
    { [first |-> b, version |-> v, header |-> Header(<<>>), creds |-> <<>>, cut |-> -1] :
        b \in {4, 5}, v \in {0, 1, 2, 3, 4, 5} }

\* the largest number of records of a keytab
MaxKtRecords == 3

\* the largest number of next() calls on one EntriesIter
MaxKtReads == MaxKtRecords + 1

\* the largest number of bytes by which the second credential of a large file
\* starts before the end of the reader's first buffer
MaxStraddle == 12

\* the length of the ticket padding that puts the start of the second
\* credential of d j bytes before offset BufCapacity
PadFor(d, native, j) == BufCapacity - j - Len(FullBytes([d EXCEPT !.creds = <<d.creds[1]>>], native))

\* the file on disk as the reader sees it
OpenFile == [bytes |-> Bytes(file, os.native), native |-> os.native]

-----------------------------------------------------------------------------
(* keytab.rs, keytab/file_data.rs, keytab/memory_data.rs                   *)

WRFILE == <<"W","R","F","I","L","E">>

\* keytab.rs 16: "FILE:/etc/krb5.keytab"
DEFKTNAME == FILE \o <<":","/","e","t","c","/","k","r","b","5",".","k","e","y","t","a","b">>

\* keytab.rs 17: "FILE:/usr/local/var/krb5/user/%{euid}/client.keytab"
DEFCKTNAME ==
    FILE \o <<":","/","u","s","r","/","l","o","c","a","l","/","v","a","r","/",
               "k","r","b","5","/","u","s","e","r","/","%","{","e","u","i",
               "d","}","/","c","l","i","e","n","t",".","k","e","y","t","a",
               "b">>

\* the Ops of the keytab backends: resolve and entries_iter of the two FILE
\* ones are the same functions of keytab/file_data.rs
KTF_OPS == [prefix |-> FILE, kind |-> "FILE"]

KTF_WRITABLE_OPS == [prefix |-> WRFILE, kind |-> "FILE"]

MKT_OPS == [prefix |-> MEMORY, kind |-> "MEMORY"]

KT_DFL_OPS == [prefix |-> FILE, kind |-> "FILE"]

KT_OPS_LIST == <<KTF_OPS, KTF_WRITABLE_OPS, MKT_OPS>>

BUFSIZ == 1024

\* keytab/file_data.rs, fn resolve: the keytab it builds has ops KTF_OPS;
\* keytab/memory_data.rs, fn resolve: the keytab of the name in
\* MEMORY_KEYTABS, a new and empty one if there was none
kt_ops_resolve(ops, name) ==
    IF ops.kind = "FILE" THEN Ok([ops |-> KTF_OPS, name |-> name])
    ELSE Ok([ops |-> MKT_OPS, name |-> name])

\* a Keytab::resolve without the arm for names that start with '/'
kt_resolve_split_no_slash(name) ==
    Bind(split_once(name, ":"), LAMBDA sp :
      IF ~sp.some THEN [direct |-> TRUE, prefix |-> <<>>, residual |-> name]
      ELSE IF Len(sp.val[1]) = 1 /\ is_ascii_alphabetic(sp.val[1][1])
      THEN [direct |-> FALSE, prefix |-> FILE, residual |-> name]
      ELSE [direct |-> FALSE, prefix |-> sp.val[1], residual |-> sp.val[2]])

\* Keytab::resolve, lines 70-76: the (prefix, real_name) the name is
\* dispatched with; direct is the early return through DFL_OPS
kt_resolve_split(name) ==
    Bind(split_once(name, ":"), LAMBDA sp :
      IF ~sp.some THEN [direct |-> TRUE, prefix |-> <<>>, residual |-> name]
      ELSE IF Len(sp.val[1]) = 1 /\ is_ascii_alphabetic(sp.val[1][1])
      THEN [direct |-> FALSE, prefix |-> FILE, residual |-> name]
      ELSE IF starts_with(name, <<"/">>)
      THEN [direct |-> FALSE, prefix |-> FILE, residual |-> name]
      ELSE [direct |-> FALSE, prefix |-> sp.val[1], residual |-> sp.val[2]])

\* Keytab::resolve, lines 77-80: the first of OPS_LIST with the prefix, if any
kt_ops_for(prefix) ==
    Bind({i \in 1..Len(KT_OPS_LIST) : KT_OPS_LIST[i].prefix = prefix}, LAMBDA matching :
      IF matching = {} THEN None
      ELSE Some(KT_OPS_LIST[CHOOSE i \in matching : \A j \in matching : i <= j]))

\* Keytab::resolve
Keytab_resolve(name) ==
    Bind(kt_resolve_split(name), LAMBDA d :
      IF d.direct THEN kt_ops_resolve(KT_DFL_OPS, name)
      ELSE IF kt_ops_for(d.prefix).some THEN kt_ops_resolve(kt_ops_for(d.prefix).val, d.residual)
      ELSE Err("KRB5_KT_UNKNOWN_TYPE"))

\* Keytab::default_name and Keytab::client_default_name of a context made by
\* Context::init (profile_secure is false): the environment variable, or
\* the profile's value or the constant with its tokens expanded
kt_default_name(env_value, profile_value, constant, o) ==
    IF env_value.some THEN Ok(env_value.val)
    ELSE expand_path_tokens(unwrap_or(profile_value, constant), o)

\* Keytab::get_name
kt_get_name(keytab, length) ==
    IF Len(keytab.ops.prefix \o <<":">> \o keytab.name) > length THEN Err("KRB5_KT_NAME_TOOLONG")
    ELSE Ok(keytab.ops.prefix \o <<":">> \o keytab.name)

\* match r { Some(v) => K(v), None => return Ok(None) } on the Option in r
IfSome(r, K(_, _)) ==
    CHOOSE x \in { IF r1.ret.val.some THEN K(r1.rd, r1.ret.val.val)
                   ELSE [rd |-> r1.rd, ret |-> Ok(None)] : r1 \in {r} } : TRUE

\* BufReader::seek to an absolute position: the buffer is dropped
kt_seek(rd, position) == [off |-> position, bend |-> position]

\* endianness (keytab)
kt_endianness(version) == IF version = 1 THEN "Native" ELSE "Big"

\* FileData::read_data (keytab): a 16-bit length that is not 0, and the value
kt_read_data(f, rd, e) ==
    Bind(read_u16(f, rd, e), LAMBDA r :
      IF ~(r.ret.val.some /\ r.ret.val.val > 0) THEN [rd |-> r.rd, ret |-> Ok(None)]
      ELSE Bind(reader_read(f, r.rd, r.ret.val.val), LAMBDA b :
             [rd |-> b.rd, ret |-> Ok(IF Len(b.bytes) = r.ret.val.val THEN Some(b.bytes) ELSE None)]))

\* FileData::read_principal (keytab): for _ in 0..component_count
RECURSIVE kt_read_components(_, _, _, _, _)
kt_read_components(f, rd, e, component_count, components) ==
    IF component_count = 0 THEN [rd |-> rd, ret |-> Ok(Some(components))]
    ELSE IfSome(kt_read_data(f, rd, e), LAMBDA rd1, component :
           Bind(Append(components, component), LAMBDA pushed :
             kt_read_components(f, rd1, e, component_count - 1, pushed)))

\* FileData::read_principal (keytab)
kt_read_principal(f, rd, version) ==
    Bind(read_u16(f, rd, kt_endianness(version)), LAMBDA r :
      IF ~(r.ret.val.some /\ r.ret.val.val > (IF version = 1 THEN 1 ELSE 0))
      THEN [rd |-> r.rd, ret |-> Ok(None)]
      ELSE
        IfSome(kt_read_data(f, r.rd, kt_endianness(version)), LAMBDA rd1, realm :
        IfSome(kt_read_components(f, rd1, kt_endianness(version),
                                  IF version = 1 THEN r.ret.val.val - 1 ELSE r.ret.val.val, <<>>),
          LAMBDA rd2, components :
        IfSome(IF version = 1 THEN [rd |-> rd2, ret |-> Ok(Some(NT_UNKNOWN))]
               ELSE read_i32(f, rd2, kt_endianness(version)), LAMBDA rd3, name_type :
          [ rd  |-> rd3,
            ret |-> Ok(Some([realm |-> realm, components |-> components, name_type |-> name_type])) ]))))

\* read_i16
read_i16(f, rd, e) ==
    Bind(read_u16(f, rd, e), LAMBDA r :
      IF r.ret.val.some /\ r.ret.val.val >= 32768
      THEN [rd |-> r.rd, ret |-> Ok(Some(r.ret.val.val - 65536))]
      ELSE r)

\* FileData::read_keyblock (keytab)
kt_read_keyblock(f, rd, version) ==
    IfSome(read_i16(f, rd, kt_endianness(version)), LAMBDA rd1, enctype :
    IfSome(kt_read_data(f, rd1, kt_endianness(version)), LAMBDA rd2, contents :
      [rd |-> rd2, ret |-> Ok(Some([enctype |-> enctype, contents |-> contents]))]))

\* a FileData::read_entry that reads the 32-bit key version whenever a byte
\* of the record remains after the keyblock
kt_read_fields_any_byte(f, rd, version, size) ==
    IfSome(kt_read_principal(f, rd, version), LAMBDA rd1, principal :
    IfSome(read_u32(f, rd1, kt_endianness(version)), LAMBDA rd2, timestamp :
    IfSome(read_u8(f, rd2), LAMBDA rd3, vno :
    IfSome(kt_read_keyblock(f, rd3, version), LAMBDA rd4, key :
    IfSome(IF rd4.off - rd.off + 1 <= size THEN read_u32(f, rd4, kt_endianness(version))
           ELSE [rd |-> rd4, ret |-> Ok(Some(0))], LAMBDA rd5, vno32 :
      [ rd  |-> kt_seek(rd5, rd.off + size),
        ret |-> Ok(Some([ principal |-> principal,
                          timestamp |-> timestamp,
                          vno       |-> IF vno32 # 0 THEN vno32 ELSE vno,
                          key       |-> key ])) ])))))

\* FileData::read_entry, from start_position on
kt_read_fields(f, rd, version, size) ==
    IfSome(kt_read_principal(f, rd, version), LAMBDA rd1, principal :
    IfSome(read_u32(f, rd1, kt_endianness(version)), LAMBDA rd2, timestamp :
    IfSome(read_u8(f, rd2), LAMBDA rd3, vno :
    IfSome(kt_read_keyblock(f, rd3, version), LAMBDA rd4, key :
    IfSome(IF rd4.off - rd.off + 4 <= size THEN read_u32(f, rd4, kt_endianness(version))
           ELSE [rd |-> rd4, ret |-> Ok(Some(0))], LAMBDA rd5, vno32 :
      [ rd  |-> kt_seek(rd5, rd.off + size),
        ret |-> Ok(Some([ principal |-> principal,
                          timestamp |-> timestamp,
                          vno       |-> IF vno32 # 0 THEN vno32 ELSE vno,
                          key       |-> key ])) ])))))

\* FileData::read_entry (keytab)
RECURSIVE kt_read_entry(_, _, _)
kt_read_entry(f, rd, version) ==
    IfSome(read_i32(f, rd, kt_endianness(version)), LAMBDA rd1, size :
      IF size > 0 THEN kt_read_fields(f, rd1, version, size)
      ELSE IF size < 0
      THEN IF size = -2147483647 - 1 THEN [rd |-> rd1, ret |-> Err("KRB5_KT_FORMAT")]
           ELSE kt_read_entry(f, kt_seek(rd1, rd1.off - size), version)
      ELSE [rd |-> rd1, ret |-> Ok(None)])

\* <EntriesIter as Iterator>::next
EntriesIter_next(f, rd, version) ==
    Bind(kt_read_entry(f, rd, version), LAMBDA r : [rd |-> r.rd, ret |-> transpose(r.ret)])

\* while let Some(entry) = entries_iter.next().transpose()?: the entries
\* handed to the loop body, and how the loop ends
RECURSIVE entries_loop(_, _, _)
entries_loop(f, rd, version) ==
    Bind(EntriesIter_next(f, rd, version), LAMBDA r :
      IF ~r.ret.some THEN [items |-> <<>>, end |-> Ok(<<>>)]
      ELSE IF ~r.ret.val.ok THEN [items |-> <<>>, end |-> Err(r.ret.val.err)]
      ELSE Bind(entries_loop(f, r.rd, version), LAMBDA more :
             [items |-> <<r.ret.val.val>> \o more.items, end |-> more.end]))

\* Keytab::entries_iter and the loop over it: a FILE keytab reads its file,
\* a MEMORY keytab of this process holds no entry
kt_entries(keytab, dk) ==
    IF keytab.ops.kind = "FILE"
    THEN IF dk.state = "denied" THEN Err("io::Error")
         ELSE IF dk.state = "absent" THEN Err("No such file or directory")
         ELSE Bind(kt_entries_iter(dk.f), LAMBDA it :
                IF ~it.ret.ok THEN Err(it.ret.err)
                ELSE Ok(entries_loop(dk.f, it.ret.val.reader, it.ret.val.version)))
    ELSE Ok([items |-> <<>>, end |-> Ok(<<>>)])

-----------------------------------------------------------------------------
(* principal.rs: what klist uses of a principal                            *)

\* String::from_utf8 on the bytes the model holds: those below 128 are text
from_utf8(b) == IF \A i \in 1..Len(b) : b[i] < 128 THEN Ok(b) ELSE Err("FromUtf8Error")

\* [Vec<u8>]::join(&sep)
RECURSIVE join(_, _)
join(parts, sep) ==
    IF parts = <<>> THEN <<>>
    ELSE IF Len(parts) = 1 THEN parts[1]
    ELSE parts[1] \o <<sep>> \o join(Tail(parts), sep)

\* Principal::unparse_name with flags 0: the components joined by '/', then
\* '@' and the realm
unparse_name(p) == from_utf8(join(<<join(p.components, 47), p.realm>>, 64))

\* Principal::compare_with_flags with flags 0
compare_with_flags(p, q) ==
    /\ Len(p.components) = Len(q.components)
    /\ p.realm = q.realm
    /\ \A i \in 1..Len(p.components) : p.components[i] = q.components[i]

\* Principal::is_local_tgt
is_local_tgt(p, realm) ==
    /\ Len(p.components) = 2
    /\ p.realm = realm
    /\ p.components[1] = as_bytes(KRB5_TGS_NAME)
    /\ p.components[2] = realm

-----------------------------------------------------------------------------
(* principal.rs: parse_name.  A name is held as the bytes of the &str      *)

\* principal.rs 3, 4: b'@' and b'/'
REALM_SEP == 64

COMPONENT_SEP == 47

\* the byte of the backslash
BACKSLASH == 92

KRB5_WELLKNOWN_NAMESTR == <<"W", "E", "L", "L", "K", "N", "O", "W", "N">>

PARSE_NO_REALM == 1

PARSE_REQUIRE_REALM == 2

PARSE_ENTERPRISE == 4

PARSE_IGNORE_REALM == 8

PARSE_NO_DEF_REALM == 16

NT_PRINCIPAL == 1

NT_ENTERPRISE_PRINCIPAL == 10

NT_WELLKNOWN == 11

\* str::ends_with
ends_with(s, p) == Len(s) >= Len(p) /\ SubSeq(s, Len(s) - Len(p) + 1, Len(s)) = p

\* str::contains(char)
contains(s, c) == \E i \in 1..Len(s) : s[i] = c

\* str::split(char): the pieces between the separators, empty ones too
RECURSIVE split(_, _)
split(s, c) ==
    IF ~find(s, <<c>>).some THEN <<s>>
    ELSE <<slice(s, 0, find(s, <<c>>).val)>> \o split(slice_from(s, find(s, <<c>>).val + 1), c)

\* Context::get_default_realm on a context whose default_realm is the bytes
\* given
get_default_realm(default_realm) ==
    IF default_realm # <<>> THEN Ok(default_realm) ELSE Err("KRB5_CONFIG_NODEFREALM")

\* Principal::infer_principal_type
infer_principal_type(components) ==
    IF Len(components) = 2 /\ components[1] = as_bytes(KRB5_TGS_NAME) THEN NT_SRV_INST
    ELSE IF Len(components) >= 2 /\ components[1] = as_bytes(KRB5_WELLKNOWN_NAMESTR) THEN NT_WELLKNOWN
    ELSE NT_PRINCIPAL

\* parse_name, lines 47-51: name.find('@').map(|i| i + 1).unwrap_or_default()
find_realm_from(name, enterprise) ==
    IF enterprise /\ find(name, <<REALM_SEP>>).some THEN find(name, <<REALM_SEP>>).val + 1 ELSE 0

\* parse_name, lines 52-58: the text of the components and the realm, if any
parse_name_halves(name, from) ==
    IF ~find(slice_from(name, from), <<REALM_SEP>>).some THEN [components |-> name, realm |-> None]
    ELSE [ components |-> slice(name, 0, from + find(slice_from(name, from), <<REALM_SEP>>).val),
           realm      |-> Some(slice_from(name, from + find(slice_from(name, from), <<REALM_SEP>>).val + 1)) ]

\* parse_name, lines 69-90: the realm of the principal
parse_name_realm(default_realm, realm, flags) ==
    IF realm.some
    THEN IF \/ BitAnd(flags, PARSE_NO_REALM) # 0
            \/ (BitAnd(flags, PARSE_ENTERPRISE) = 0 /\ contains(realm.val, COMPONENT_SEP))
            \/ contains(realm.val, REALM_SEP)
         THEN Err("KRB5_PARSE_MALFORMED")
         ELSE IF BitAnd(flags, PARSE_IGNORE_REALM) # 0 THEN Ok(<<>>)
         ELSE Ok(realm.val)
    ELSE IF BitAnd(flags, PARSE_REQUIRE_REALM) # 0 THEN Err("KRB5_PARSE_MALFORMED")
    ELSE IF BitAnd(flags, BitOr(PARSE_NO_REALM, BitOr(PARSE_IGNORE_REALM, PARSE_NO_DEF_REALM))) # 0
    THEN Ok(<<>>)
    ELSE get_default_realm(default_realm)

\* Principal::parse_name on a context with the default realm given
parse_name(default_realm, name, flags) ==
    IF ends_with(name, <<BACKSLASH>>) THEN Err("KRB5_PARSE_MALFORMED")
    ELSE CHOOSE x \in
      { IF ~parse_name_realm(default_realm, h.realm, flags).ok
        THEN parse_name_realm(default_realm, h.realm, flags)
        ELSE Ok([ realm      |-> parse_name_realm(default_realm, h.realm, flags).val,
                  components |-> IF BitAnd(flags, PARSE_ENTERPRISE) # 0 THEN <<h.components>>
                                 ELSE split(h.components, COMPONENT_SEP),
                  name_type  |-> IF BitAnd(flags, PARSE_ENTERPRISE) # 0 THEN NT_ENTERPRISE_PRINCIPAL
                                 ELSE infer_principal_type(split(h.components, COMPONENT_SEP)) ]) :
        h \in {parse_name_halves(name, find_realm_from(name, BitAnd(flags, PARSE_ENTERPRISE) # 0))} } : TRUE

-----------------------------------------------------------------------------
(* credential_cache.rs: a cache of either backend, as klist reads it.  dk  *)
(* is the disk: state is what opening the path of a FILE cache meets, f    *)
(* the file behind it.  reg is the MEMORY registry.                        *)

\* CredentialCache::get_principal; the result is [ctx, ret]
cc_get_principal(c, reg, cache, dk) ==
    IF cache.type = FCC_OPS.prefix
    THEN IF dk.state # "present" THEN [ctx |-> c, ret |-> Err("io::Error")]
         ELSE fcc_get_principal(c, dk.f)
    ELSE IF reg[cache.name].principal.some
         THEN [ctx |-> c, ret |-> Ok(reg[cache.name].principal.val)]
         ELSE [ctx |-> c, ret |-> Err("KRB5_FCC_NOFILE")]

\* while let Some(credential) = credentials_iter.next().transpose()? on a
\* FILE cache: the credentials handed to the loop body, and how the loop ends
RECURSIVE credentials_loop(_, _, _)
credentials_loop(f, rd, version) ==
    Bind(CredentialsIter_next(f, rd, version), LAMBDA r :
      IF ~r.ret.some THEN [items |-> <<>>, end |-> Ok(<<>>)]
      ELSE IF ~r.ret.val.ok THEN [items |-> <<>>, end |-> Err(r.ret.val.err)]
      ELSE Bind(credentials_loop(f, r.rd, version), LAMBDA more :
             [items |-> <<r.ret.val.val>> \o more.items, end |-> more.end]))

\* CredentialCache::credentials_iter and the loop over it; the result is
\* [ctx, ret], ret holding the items and the end of the loop
cc_credentials(c, reg, cache, dk) ==
    IF cache.type = FCC_OPS.prefix
    THEN IF dk.state # "present" THEN [ctx |-> c, ret |-> Err("io::Error")]
         ELSE Bind(fcc_credentials_iter(c, dk.f), LAMBDA it :
                IF ~it.ret.ok THEN [ctx |-> it.ctx, ret |-> Err(it.ret.err)]
                ELSE [ctx |-> it.ctx,
                      ret |-> Ok(credentials_loop(dk.f, it.ret.val.reader, it.ret.val.version))])
    ELSE [ctx |-> c, ret |-> Ok([items |-> reg[cache.name].credentials, end |-> Ok(<<>>)])]

\* Credential::get_config; indexing components[1] of a configuration entry
\* with one component panics
get_config(cred) ==
    IF ~is_config(cred) THEN Ok(None)
    ELSE IF Len(cred.server.components) < 2 THEN Err("panic: index out of bounds")
    ELSE Ok(Some([ key       |-> cred.server.components[2],
                   principal |-> IF Len(cred.server.components) > 2
                                 THEN Some(cred.server.components[3]) ELSE None,
                   value     |-> cred.ticket ]))

\* Enctype::name: the encryption types that have one
NamedEnctypes == {1, 2, 3, 4, 8, 6, 16, 23, 24, 17, 18, 25, 26, 19, 20}

-----------------------------------------------------------------------------
(* bin/klist.rs                                                            *)

\* the short options of struct Args
Options == {"c", "k", "i", "l", "A", "e", "d", "f", "s", "a", "n", "t", "K", "C"}

\* struct Args for the options given and the name
Args(given, name) ==
    [ ccache            |-> "c" \in given,
      keytab            |-> "k" \in given,
      use_client_keytab |-> "i" \in given,
      list_all          |-> "l" \in given,
      show_all          |-> "A" \in given,
      show_etype        |-> "e" \in given,
      show_adtype       |-> "d" \in given,
      show_flags        |-> "f" \in given,
      status_only       |-> "s" \in given,
      show_addresses    |-> "a" \in given,
      no_resolve        |-> "n" \in given,
      show_time         |-> "t" \in given,
      show_keys         |-> "K" \in given,
      show_config       |-> "C" \in given,
      name              |-> name ]

\* run, lines 84-89: the mode, or the usage error for -c with -k
mode_of(args) ==
    IF args.ccache /\ args.keytab THEN "usage"
    ELSE IF args.keytab THEN "KEYTAB"
    ELSE IF args.ccache THEN "CCACHE"
    ELSE "DEFAULT"

\* a run that lets -n pass without -a
run_usage_any_n(args) ==
    \/ mode_of(args) = "usage"
    \/ /\ mode_of(args) \in {"DEFAULT", "CCACHE"}
       /\ \/ args.show_time \/ args.show_keys
          \/ (args.show_all /\ args.list_all) \/ (args.status_only /\ args.list_all)
    \/ /\ mode_of(args) = "KEYTAB"
       /\ \/ args.show_flags \/ args.status_only \/ args.show_addresses
          \/ args.show_all \/ args.list_all

\* run, lines 84-114: the flag combinations that return usage()
run_usage(args) ==
    \/ mode_of(args) = "usage"
    \/ args.no_resolve /\ ~args.show_addresses
    \/ /\ mode_of(args) \in {"DEFAULT", "CCACHE"}
       /\ \/ args.show_time \/ args.show_keys
          \/ (args.show_all /\ args.list_all) \/ (args.status_only /\ args.list_all)
    \/ /\ mode_of(args) = "KEYTAB"
       /\ \/ args.show_flags \/ args.status_only \/ args.show_addresses
          \/ args.show_all \/ args.list_all

\* run, lines 127-140: the function run goes on with
run_dispatch(args) ==
    IF args.list_all THEN "list_all_ccaches"
    ELSE IF args.show_all THEN "show_all_ccaches"
    ELSE IF mode_of(args) = "KEYTAB" THEN "do_keytab"
    ELSE "do_ccache"

\* the loop of check_ccache over the credentials
RECURSIVE check_loop(_, _, _, _)
check_loop(items, realm, now, found) ==
    IF items = <<>> THEN found
    ELSE check_loop(Tail(items), realm, now,
           IF is_local_tgt(Head(items).server, realm)
           THEN [found EXCEPT !.tgt = TRUE,
                              !.current_tgt = @ \/ Head(items).times.endtime > now]
           ELSE IF ~is_config(Head(items)) /\ Head(items).times.endtime > now
           THEN [found EXCEPT !.current_cred = TRUE]
           ELSE found)

\* check_ccache; the result is [ctx, ret]
check_ccache(c, reg, cache, dk, now) ==
    Bind(cc_get_principal(c, reg, cache, dk), LAMBDA p :
      IF ~p.ret.ok THEN [ctx |-> p.ctx, ret |-> Err(p.ret.err)]
      ELSE Bind(cc_credentials(p.ctx, reg, cache, dk), LAMBDA it :
        IF ~it.ret.ok THEN [ctx |-> it.ctx, ret |-> Err(it.ret.err)]
        ELSE IF ~it.ret.val.end.ok THEN [ctx |-> it.ctx, ret |-> Err(it.ret.val.end.err)]
        ELSE Bind(check_loop(it.ret.val.items, p.ret.val.realm, now,
                             [tgt |-> FALSE, current_tgt |-> FALSE, current_cred |-> FALSE]),
               LAMBDA found :
                 [ ctx |-> it.ctx,
                   ret |-> IF (found.tgt /\ found.current_tgt) \/ (~found.tgt /\ found.current_cred)
                           THEN Ok(<<>>) ELSE Err("") ])))

\* the ticket flags klist has a letter for
FlagLetters ==
    << <<1073741824, "F">>, <<536870912, "f">>, <<268435456, "P">>, <<134217728, "p">>,
       <<67108864, "D">>, <<33554432, "d">>, <<16777216, "i">>, <<8388608, "R">>,
       <<4194304, "I">>, <<1048576, "H">>, <<2097152, "A">>, <<524288, "T">>,
       <<262144, "O">>, <<32768, "a">> >>

\* flags_string
RECURSIVE flags_string_from(_, _)
flags_string_from(flags, i) ==
    IF i > Len(FlagLetters) THEN <<>>
    ELSE (IF BitAnd(flags, FlagLetters[i][1]) > 0 THEN <<FlagLetters[i][2]>> ELSE <<>>)
           \o flags_string_from(flags, i + 1)

flags_string(flags) == flags_string_from(flags, 1)

\* etype_string
etype_string(enctype) ==
    IF enctype \in NamedEnctypes THEN Ok(enctype) ELSE Err("Invalid enctype")

\* show_credential, lines 337-397: what follows the first line of a
\* credential.  The result is [fields, ret]: the names of the extra fields
\* printed, and the error of etype_string if it stopped the function
show_extra(cred, ticket, name, default_principal, args) ==
    Bind((IF name # default_principal THEN <<"for client">> ELSE <<>>)
           \o (IF cred.times.renew_till # 0 THEN <<"renew until">> ELSE <<>>)
           \o (IF args.show_flags /\ flags_string(cred.ticket_flags) # <<>> THEN <<"Flags">> ELSE <<>>),
      LAMBDA fields :
        IF args.show_etype /\ ticket.some
        THEN IF ~etype_string(cred.keyblock.enctype).ok THEN [fields |-> fields, ret |-> Err("Invalid enctype")]
             ELSE IF ~etype_string(ticket.val.enc_part.enctype).ok
                  THEN [fields |-> fields, ret |-> Err("Invalid enctype")]
             ELSE [ fields |-> fields \o <<"Etype">> \o (IF args.show_adtype THEN <<"AD types">> ELSE <<>>),
                    ret |-> Ok(<<>>) ]
        ELSE [ fields |-> fields \o (IF args.show_adtype THEN <<"AD types">> ELSE <<>>),
               ret |-> Ok(<<>>) ])

\* show_credential.  The result is [out, ret]: out is empty or the one
\* record of what was printed for the credential
show_credential(cred, default_principal, args) ==
    Bind(unparse_name(cred.client), LAMBDA name :
    Bind(unparse_name(cred.server), LAMBDA sname :
    Bind(get_ticket(cred).ret, LAMBDA ticket :
    Bind(get_config(cred), LAMBDA config :
      IF ~name.ok THEN [out |-> <<>>, ret |-> Err(name.err)]
      ELSE IF ~sname.ok THEN [out |-> <<>>, ret |-> Err(sname.err)]
      ELSE IF ~ticket.ok THEN [out |-> <<>>, ret |-> Err(ticket.err)]
      ELSE IF ~config.ok THEN [out |-> <<>>, ret |-> Err(config.err)]
      ELSE IF config.val.some /\ ~from_utf8(config.val.val.key).ok
      THEN [out |-> <<>>, ret |-> Err("FromUtf8Error")]
      ELSE IF config.val.some /\ config.val.val.principal.some
                /\ ~from_utf8(config.val.val.principal.val).ok
      THEN [out |-> <<>>, ret |-> Err("FromUtf8Error")]
      ELSE Bind(show_extra(cred, ticket.val, name.val, default_principal, args), LAMBDA extra :
        [ out |-> << [ line      |-> IF config.val.some THEN "config" ELSE "ticket",
                       server    |-> sname.val,
                       start     |-> IF cred.times.starttime = 0 THEN cred.times.authtime
                                     ELSE cred.times.starttime,
                       expires   |-> cred.times.endtime,
                       fields    |-> extra.fields,
                       addresses |-> IF extra.ret.ok /\ args.show_addresses
                                     THEN Some(Len(cred.addresses)) ELSE None,
                       ticket_server |->
                         IF extra.ret.ok /\ ticket.val.some
                              /\ ~compare_with_flags(cred.server, ticket.val.val.server)
                         THEN unparse_name(ticket.val.val.server) ELSE NoResult ] >>,
          ret |-> IF ~extra.ret.ok THEN extra.ret
                  ELSE IF ticket.val.some /\ ~compare_with_flags(cred.server, ticket.val.val.server)
                            /\ ~unparse_name(ticket.val.val.server).ok
                  THEN Err("FromUtf8Error")
                  ELSE Ok(<<>>) ])))))

\* the loop of show_ccache over the credentials; the result is [out, ret]
RECURSIVE show_loop(_, _, _)
show_loop(items, default_principal, args) ==
    IF items = <<>> THEN [out |-> <<>>, ret |-> Ok(<<>>)]
    ELSE IF args.show_config \/ ~is_config(Head(items))
    THEN Bind(show_credential(Head(items), default_principal, args), LAMBDA shown :
           IF ~shown.ret.ok THEN shown
           ELSE Bind(show_loop(Tail(items), default_principal, args), LAMBDA more :
                  [out |-> shown.out \o more.out, ret |-> more.ret]))
    ELSE show_loop(Tail(items), default_principal, args)

\* show_ccache; the result is [ctx, out, ret]
show_ccache(c, reg, cache, dk, args) ==
    Bind(cc_get_principal(c, reg, cache, dk), LAMBDA p :
      IF ~p.ret.ok THEN [ctx |-> p.ctx, out |-> <<>>, ret |-> Err(p.ret.err)]
      ELSE IF ~unparse_name(p.ret.val).ok
      THEN [ctx |-> p.ctx, out |-> <<>>, ret |-> Err("FromUtf8Error")]
      ELSE Bind(<<[line |-> "Ticket cache", cache |-> get_full_name(cache)],
                  [line |-> "Default principal", principal |-> unparse_name(p.ret.val).val],
                  [line |-> "Valid starting"]>>, LAMBDA head :
           Bind(cc_credentials(p.ctx, reg, cache, dk), LAMBDA it :
             IF ~it.ret.ok THEN [ctx |-> it.ctx, out |-> head, ret |-> Err(it.ret.err)]
             ELSE Bind(show_loop(it.ret.val.items, unparse_name(p.ret.val).val, args), LAMBDA shown :
               [ ctx |-> it.ctx,
                 out |-> head \o shown.out,
                 ret |-> IF ~shown.ret.ok THEN shown.ret
                         ELSE IF ~it.ret.val.end.ok THEN Err(it.ret.val.end.err)
                         ELSE Ok(<<>>) ]))))

\* list_ccache; the result is [ctx, out, ret]
list_ccache(c, reg, cache, dk, now) ==
    Bind(cc_get_principal(c, reg, cache, dk), LAMBDA p :
      IF ~p.ret.ok THEN [ctx |-> p.ctx, out |-> <<>>, ret |-> Err(p.ret.err)]
      ELSE IF ~unparse_name(p.ret.val).ok THEN [ctx |-> p.ctx, out |-> <<>>, ret |-> Err("")]
      ELSE Bind(check_ccache(p.ctx, reg, cache, dk, now), LAMBDA checked :
             [ ctx |-> checked.ctx,
               out |-> << [ line      |-> "cache",
                            principal |-> unparse_name(p.ret.val).val,
                            cache     |-> get_full_name(cache),
                            expired   |-> ~checked.ret.ok ] >>,
               ret |-> Ok(<<>>) ]))

\* while let Some(cache) = credential_caches_iter.next().transpose()?: s is
\* [ctx, reg, it]; the caches pushed, and how the loop ends
RECURSIVE caches_loop(_, _)
caches_loop(s, w) ==
    Bind(CachesIter_next(s, w), LAMBDA r :
      IF ~r.ret.some THEN [st |-> r.st, caches |-> <<>>, end |-> Ok(<<>>)]
      ELSE IF ~r.ret.val.ok THEN [st |-> r.st, caches |-> <<>>, end |-> Err(r.ret.val.err)]
      ELSE Bind(caches_loop(r.st, w), LAMBDA more :
             [st |-> more.st, caches |-> <<r.ret.val.val>> \o more.caches, end |-> more.end]))

\* list_all_ccaches: for cache in caches; the result is [ctx, out, status]
RECURSIVE list_each(_, _, _, _, _)
list_each(caches, c, reg, dk, now) ==
    IF caches = <<>> THEN [ctx |-> c, out |-> <<>>, status |-> FALSE]
    ELSE Bind(list_ccache(c, reg, Head(caches), dk, now), LAMBDA listed :
         Bind(list_each(Tail(caches), listed.ctx, reg, dk, now), LAMBDA more :
           [ ctx |-> more.ctx, out |-> listed.out \o more.out,
             status |-> listed.ret.ok \/ more.status ]))

\* list_all_ccaches; the result is [ctx, reg, out, ret]
list_all_ccaches(c, reg, w, dk, now) ==
    Bind(caches_loop([ctx |-> c, reg |-> reg, it |-> NewCachesIter], w), LAMBDA found :
      IF ~found.end.ok
      THEN [ctx |-> found.st.ctx, reg |-> found.st.reg, out |-> <<>>, ret |-> Err(found.end.err)]
      ELSE Bind(list_each(found.caches, found.st.ctx, found.st.reg, dk, now), LAMBDA listed :
             [ ctx |-> listed.ctx, reg |-> found.st.reg,
               out |-> <<[line |-> "Principal name"], [line |-> "--------------"]>> \o listed.out,
               ret |-> IF listed.status THEN Ok(<<>>) ELSE Err("") ]))

\* show_all_ccaches: for cache in caches; the result is [ctx, out, status]
RECURSIVE show_each(_, _, _, _, _, _, _)
show_each(caches, first, c, reg, dk, args, now) ==
    IF caches = <<>> THEN [ctx |-> c, out |-> <<>>, status |-> FALSE]
    ELSE Bind(IF args.status_only
              THEN Bind(check_ccache(c, reg, Head(caches), dk, now), LAMBDA checked :
                     [ctx |-> checked.ctx, out |-> <<>>, ret |-> checked.ret])
              ELSE show_ccache(c, reg, Head(caches), dk, args), LAMBDA shown :
         Bind(show_each(Tail(caches), FALSE, shown.ctx, reg, dk, args, now), LAMBDA more :
           [ ctx |-> more.ctx,
             out |-> (IF ~args.status_only /\ ~first THEN <<[line |-> ""]>> ELSE <<>>)
                       \o shown.out \o more.out,
             status |-> shown.ret.ok \/ more.status ]))

\* show_all_ccaches; the result is [ctx, reg, out, ret]
show_all_ccaches(c, reg, w, dk, args, now) ==
    Bind(caches_loop([ctx |-> c, reg |-> reg, it |-> NewCachesIter], w), LAMBDA found :
      IF ~found.end.ok
      THEN [ctx |-> found.st.ctx, reg |-> found.st.reg, out |-> <<>>, ret |-> Err(found.end.err)]
      ELSE Bind(show_each(found.caches, TRUE, found.st.ctx, found.st.reg, dk, args, now),
             LAMBDA shown :
               [ ctx |-> shown.ctx, reg |-> found.st.reg, out |-> shown.out,
                 ret |-> IF shown.status THEN Ok(<<>>) ELSE Err("") ]))

\* do_ccache; the result is [ctx, reg, out, ret]
do_ccache(c, reg, w, dk, args, now) ==
    Bind(CredentialCache_default(c, reg, w), LAMBDA cache :
      IF ~cache.ret.ok
      THEN [ctx |-> cache.ctx, reg |-> cache.reg, out |-> <<>>, ret |-> Err(cache.ret.err)]
      ELSE IF args.status_only
      THEN Bind(check_ccache(cache.ctx, cache.reg, cache.ret.val, dk, now), LAMBDA checked :
             [ctx |-> checked.ctx, reg |-> cache.reg, out |-> <<>>, ret |-> checked.ret])
      ELSE Bind(show_ccache(cache.ctx, cache.reg, cache.ret.val, dk, args), LAMBDA shown :
             [ctx |-> shown.ctx, reg |-> cache.reg, out |-> shown.out, ret |-> shown.ret]))

\* do_keytab: the while loop over the entries; the result is [out, ret]
RECURSIVE keytab_loop(_, _)
keytab_loop(items, args) ==
    IF items = <<>> THEN [out |-> <<>>, ret |-> Ok(<<>>)]
    ELSE IF ~unparse_name(Head(items).principal).ok
    THEN [out |-> <<>>, ret |-> Err("FromUtf8Error")]
    ELSE Bind([ line      |-> "entry",
                vno       |-> Head(items).vno,
                timestamp |-> IF args.show_time THEN Some(Head(items).timestamp) ELSE None,
                principal |-> unparse_name(Head(items).principal).val,
                etype     |-> IF args.show_etype /\ etype_string(Head(items).key.enctype).ok
                              THEN Some(Head(items).key.enctype) ELSE None,
                key       |-> IF args.show_keys
                                   /\ (args.show_etype => etype_string(Head(items).key.enctype).ok)
                              THEN Some(Head(items).key.contents) ELSE None ], LAMBDA printed :
           IF args.show_etype /\ ~etype_string(Head(items).key.enctype).ok
           THEN [out |-> <<printed>>, ret |-> Err("Invalid enctype")]
           ELSE Bind(keytab_loop(Tail(items), args), LAMBDA more :
                  [out |-> <<printed>> \o more.out, ret |-> more.ret]))

\* do_keytab; kt_env holds KRB5_KTNAME and KRB5_CLIENT_KTNAME.  The result is
\* [out, ret]
do_keytab(args, kt_env, o, dk) ==
    Bind(IF args.name.some THEN Keytab_resolve(args.name.val)
         ELSE IF args.use_client_keytab
         THEN AndThen(kt_default_name(kt_env.client, None, DEFCKTNAME, o),
                      LAMBDA name : Keytab_resolve(name))
         ELSE AndThen(kt_default_name(kt_env.server, None, DEFKTNAME, o),
                      LAMBDA name : Keytab_resolve(name)), LAMBDA keytab :
      IF ~keytab.ok THEN [out |-> <<>>, ret |-> Err(keytab.err)]
      ELSE IF ~kt_get_name(keytab.val, BUFSIZ).ok
      THEN [out |-> <<>>, ret |-> Err("KRB5_KT_NAME_TOOLONG")]
      ELSE Bind(<<[line |-> "Keytab name", name |-> kt_get_name(keytab.val, BUFSIZ).val]>>,
             LAMBDA head :
           Bind(kt_entries(keytab.val, dk), LAMBDA entries :
             IF ~entries.ok THEN [out |-> head, ret |-> Err(entries.err)]
             ELSE Bind(keytab_loop(entries.val.items, args), LAMBDA printed :
               [ out |-> head \o <<[line |-> "KVNO"], [line |-> "----"]>> \o printed.out,
                 ret |-> IF ~printed.ret.ok THEN printed.ret
                         ELSE IF ~entries.val.end.ok THEN Err(entries.val.end.err)
                         ELSE Ok(<<>>) ]))))

-----------------------------------------------------------------------------
(* Threads sharing the MEMORY registries                                   *)

\* the number of threads
MaxThreads == 2

\* the largest number of calls one thread makes
MaxOps == 2

Threads == 1..MaxThreads

\* every call allocates at most once
MaxHandles == MaxThreads * MaxOps

\* the two registries: MEMORY_CACHES and MEMORY_KEYTABS
Kinds == {"ccache", "keytab"}

\* the names the threads resolve
MemNames == {<<"a">>, <<"b">>}

\* keytab/memory_data.rs, fn create_memory_keytab
create_memory_keytab(name) == [name |-> name, entries |-> <<>>]

\* Arc::new(Mutex::new(create_memory_cache(name))) and its keytab counterpart
new_object(kind, name) ==
    [ kind |-> kind,
      name |-> name,
      data |-> IF kind = "ccache" THEN create_memory_cache(name)
               ELSE create_memory_keytab(name) ]

\* a lookup that finds nothing
registry_get_miss(reg, kind, name) == None

\* HashMap::get(name).map(Arc::clone)
registry_get(reg, kind, name) ==
    IF reg[kind][name] = 0 THEN None ELSE Some(reg[kind][name])

\* HashMap::insert(name, handle): an entry of the same name is replaced
registry_insert(reg, kind, name, handle) == [reg EXCEPT ![kind][name] = handle]

\* a guard of the registry that outlives its statement
drop_map_guard_late(l, kind) == l

\* the MutexGuard of a registry is a temporary: it is dropped at the end of
\* the statement that locked it
drop_map_guard(l, kind) == [l EXCEPT !.map[kind] = 0]

\* the MutexGuard of a cache or keytab is dropped at the end of its block
drop_object_guard(l, handle) == [l EXCEPT !.obj[handle] = 0]

EmptyRegistry == [k \in Kinds |-> [n \in MemNames |-> 0]]

NoLocks == [map |-> [k \in Kinds |-> 0], obj |-> [h \in 1..MaxHandles |-> 0]]

\* a thread that has made no call yet and may make budget calls
NewThread(budget) ==
    [ pc |-> "idle", op |-> "-", kind |-> "-", name |-> <<>>, handle |-> 0,
      budget |-> budget, rets |-> <<>>, scanned |-> 0, ctx |-> NewContext(TRUE) ]

\* klist has not run
NoKlist == [ran |-> FALSE]

\* no thread calls the MEMORY backends and klist does not run
NoProcess ==
    /\ threads = [t \in Threads |-> NewThread(0)]
    /\ registry = EmptyRegistry
    /\ heap = <<>>
    /\ locks = NoLocks
    /\ klist = NoKlist

-----------------------------------------------------------------------------
(* Actions on names and caches                                             *)

\* CredentialCache::resolve(context, name)
CcResolve(name) ==
    /\ ~cci.live
    /\ \E r \in {CredentialCache_resolve(ctx, memCaches, name)} :
         /\ Cardinality(DOMAIN r.reg) <= MaxMemCaches
         /\ ctx' = r.ctx
         /\ memCaches' = r.reg
         /\ last' = [op |-> "resolve", arg |-> name, name |-> NoResult, ret |-> r.ret]
    /\ UNCHANGED <<procVars, file, fci, env, profile, os, cci>>

\* keytab/memory_data.rs, fn resolve (one thread): MEMORY_KEYTABS after the
\* call, which makes the keytab of the name if there was none
mkt_registry(reg, name) ==
    IF name \in DOMAIN reg THEN reg ELSE reg @@ (name :> create_memory_keytab(name))

\* the ops whose resolve Keytab::resolve calls for the name, if any
kt_dispatch(name) ==
    Bind(kt_resolve_split(name), LAMBDA d :
      IF d.direct THEN Some(KT_DFL_OPS) ELSE kt_ops_for(d.prefix))

\* Keytab::resolve(last.arg); registry.keytab is MEMORY_KEYTABS, last.name
\* the prefix of the ops the name was dispatched to
KtResolve ==
    /\ last.op = "kt_init"
    /\ \E via \in {kt_dispatch(last.arg)}, r \in {Keytab_resolve(last.arg)} :
         /\ registry' = [registry EXCEPT !.keytab =
                           IF r.ok /\ r.val.ops.kind = "MEMORY" THEN mkt_registry(@, r.val.name) ELSE @]
         /\ last' = [ op |-> "kt_resolve", arg |-> last.arg,
                      name |-> IF via.some THEN Ok(via.val.prefix) ELSE NoResult, ret |-> r ]
    /\ UNCHANGED <<threads, heap, locks, klist, ctx, env, profile, os, memCaches, cci, file, fci>>

\* Keytab::get_name(length) on the keytab the resolve returned; last.arg stays
\* the name given to resolve, last.ret is what get_name returned
KtGetName(length) ==
    /\ last.op = "kt_resolve"
    /\ last.ret.ok
    /\ last' = [ op |-> "kt_get_name", arg |-> last.arg, name |-> last.name,
                 ret |-> kt_get_name(last.ret.val, length), length |-> length ]
    /\ UNCHANGED <<registry, threads, heap, locks, klist, ctx, env, profile, os, memCaches, cci, file, fci>>

\* a disk without the file: what a MEMORY cache, which reads none, is given
NoDisk == [state |-> "absent", f |-> [bytes |-> <<>>, native |-> os.native]]

\* cache.get_principal(context) on the MEMORY cache of the name
McGetPrincipal(name) ==
    /\ ~cci.live
    /\ name \in DOMAIN memCaches
    /\ \E r \in {cc_get_principal(ctx, memCaches, [type |-> MCC_OPS.prefix, name |-> name], NoDisk)} :
         /\ ctx' = r.ctx
         /\ last' = [op |-> "get_principal", arg |-> name, name |-> NoResult, ret |-> r.ret]
    /\ UNCHANGED <<procVars, file, fci, env, profile, os, memCaches, cci>>

\* cache.credentials_iter(context) on the MEMORY cache of the name, and the
\* loop over the iterator
McCredentialsIter(name) ==
    /\ ~cci.live
    /\ name \in DOMAIN memCaches
    /\ \E r \in {cc_credentials(ctx, memCaches, [type |-> MCC_OPS.prefix, name |-> name], NoDisk)} :
         /\ ctx' = r.ctx
         /\ last' = [op |-> "credentials_iter", arg |-> name, name |-> NoResult, ret |-> r.ret]
    /\ UNCHANGED <<procVars, file, fci, env, profile, os, memCaches, cci>>

\* CredentialCache::default(context); last.name is what default_name returned,
\* and it is kept until the override is set explicitly
CcDefault ==
    /\ ~cci.live
    /\ \E dn \in {default_name(ctx, World)}, r \in {CredentialCache_default(ctx, memCaches, World)} :
         /\ Cardinality(DOMAIN r.reg) <= MaxMemCaches
         /\ ctx' = r.ctx
         /\ memCaches' = r.reg
         /\ last' = [op |-> "default", arg |-> <<>>, name |-> dn.ret, ret |-> r.ret]
    /\ UNCHANGED <<procVars, file, fci, env, profile, os, cci>>

\* Context::set_default_ccname(name), as klist does with its argument
SetDefaultCcname(name) ==
    /\ ~cci.live
    /\ ctx' = set_default_ccname(ctx, name)
    /\ last' = [op |-> "set_default_ccname", arg |-> name, name |-> NoResult, ret |-> NoResult]
    /\ UNCHANGED <<procVars, file, fci, env, profile, os, memCaches, cci>>

\* the process environment changes KRB5CCNAME (set_var, remove_var)
SetEnv(v) ==
    /\ env' = v
    /\ env' # env
    /\ last' = [op |-> "setenv", arg |-> <<>>, name |-> last.name, ret |-> NoResult]
    /\ UNCHANGED <<procVars, file, fci, ctx, profile, os, memCaches, cci>>

\* CredentialCache::credential_caches_iter(context)
CachesIterNew ==
    /\ ~cci.live
    /\ cci' = [live |-> TRUE, it |-> NewCachesIter, log |-> <<>>]
    /\ last' = [op |-> "credential_caches_iter", arg |-> <<>>, name |-> NoResult, ret |-> NoResult]
    /\ UNCHANGED <<procVars, file, fci, ctx, env, profile, os, memCaches>>

\* CredentialCachesIter::next(); the log keeps each call's returned item and
\* the number of backends taken when it returned
CachesIterNext ==
    /\ cci.live
    /\ Len(cci.log) < MaxNexts
    /\ \E r \in {CachesIter_next([ctx |-> ctx, reg |-> memCaches, it |-> cci.it], World)} :
         /\ Cardinality(DOMAIN r.st.reg) <= MaxMemCaches
         /\ ctx' = r.st.ctx
         /\ memCaches' = r.st.reg
         /\ cci' = [cci EXCEPT !.it = r.st.it,
                               !.log = Append(@, [ret |-> r.ret, backend |-> r.st.it.ops_iter])]
    /\ last' = [op |-> "next", arg |-> <<>>, name |-> NoResult, ret |-> NoResult]
    /\ UNCHANGED <<procVars, file, fci, env, profile, os>>

\* the iterator is dropped, which ends its borrow of the context
CachesIterDrop ==
    /\ cci.live
    /\ cci' = NoCachesIter
    /\ last' = [op |-> "drop", arg |-> <<>>, name |-> NoResult, ret |-> NoResult]
    /\ UNCHANGED <<procVars, file, fci, ctx, env, profile, os, memCaches>>

-----------------------------------------------------------------------------
(* Actions on principals.  last.arg holds what was given: the default      *)
(* realm of the context, the flags, and the name or the principal;         *)
(* last.name is the latest name, last.ret the latest principal              *)

\* Principal::parse_name(context, name, flags) on the name given, and with
\* flags 0 on the name unparse_name returned for the principal given
PrParseName ==
    /\ last.op \in {"name", "unparsed"}
    /\ last.name.ok
    /\ last' = [last EXCEPT
                  !.op  = IF last.op = "name" THEN "parsed" ELSE "reparsed",
                  !.ret = parse_name(last.arg.default_realm, last.name.val,
                                     IF last.op = "name" THEN last.arg.flags ELSE 0)]
    /\ UNCHANGED <<procVars, ctx, env, profile, os, memCaches, cci, file, fci>>

\* principal.unparse_name(context, 0) on the principal given, and on the one
\* parse_name returned for the name given
PrUnparseName ==
    /\ last.op \in {"principal", "parsed"}
    /\ last.ret.ok
    /\ last' = [last EXCEPT
                  !.op   = IF last.op = "principal" THEN "unparsed" ELSE "reunparsed",
                  !.name = unparse_name(last.ret.val)]
    /\ UNCHANGED <<procVars, ctx, env, profile, os, memCaches, cci, file, fci>>

\* given.compare_with_flags(context, parsed, 0), parsed being the principal
\* parse_name returned for the unparsed name of the principal given
PrCompare ==
    /\ last.op = "reparsed"
    /\ last.ret.ok
    /\ last' = [last EXCEPT !.op = "compared", !.equal = compare_with_flags(last.arg.given, last.ret.val)]
    /\ UNCHANGED <<procVars, ctx, env, profile, os, memCaches, cci, file, fci>>

-----------------------------------------------------------------------------
(* Actions on cache and keytab files                                       *)

\* cache.credentials_iter(context) on the FILE cache of the file
FccCredentialsIter ==
    /\ ~fci.live
    /\ ~cci.live
    /\ \E r \in {fcc_credentials_iter(ctx, OpenFile)} :
         /\ ctx' = r.ctx
         /\ fci' = IF r.ret.ok
                   THEN [ live |-> TRUE, reader |-> r.ret.val.reader,
                          version |-> r.ret.val.version, log |-> <<>> ]
                   ELSE NoCredIter
         /\ last' = [op |-> "credentials_iter", arg |-> <<>>, name |-> NoResult, ret |-> r.ret]
    /\ UNCHANGED <<procVars, env, profile, os, memCaches, cci, file>>

\* cache.get_principal(context) on the FILE cache of the file
FccGetPrincipal ==
    /\ ~fci.live
    /\ ~cci.live
    /\ \E r \in {fcc_get_principal(ctx, OpenFile)} :
         /\ ctx' = r.ctx
         /\ last' = [op |-> "get_principal", arg |-> <<>>, name |-> NoResult, ret |-> r.ret]
    /\ UNCHANGED <<procVars, env, profile, os, memCaches, cci, file, fci>>

\* next() on the credentials iterator; the log keeps what each call returned
FccNext ==
    /\ fci.live
    /\ Len(fci.log) < MaxReads
    /\ \E r \in {CredentialsIter_next(OpenFile, fci.reader, fci.version)} :
         fci' = [fci EXCEPT !.reader = r.rd, !.log = Append(@, r.ret)]
    /\ last' = [op |-> "next", arg |-> <<>>, name |-> NoResult, ret |-> NoResult]
    /\ UNCHANGED <<procVars, ctx, env, profile, os, memCaches, cci, file>>

\* the bytes of a field of a file given by its fields: an integer of 2 or 4
\* bytes, or data of len bytes, each of them value, after a length of size
\* bytes
FieldBytes(e, fd) ==
    IF fd.kind = "int" THEN enc_int(e, fd.value, fd.size)
    ELSE enc_int(e, fd.len, fd.size) \o [i \in 1..fd.len |-> fd.value]

\* the file on disk, given by its fields, as the reader sees it
FieldsFile ==
    Bind(Concat([i \in 1..Len(file.fields) |-> FieldBytes(file.order, file.fields[i])]), LAMBDA full :
      [ bytes  |-> IF file.cut = -1 THEN full ELSE SubSeq(full, 1, file.cut),
        native |-> os.native ])

\* every read so far returned a value: the callers return at the first
\* read that does not
RdGoesOn == \A i \in 1..Len(fci.log) : fci.log[i].ret.ok /\ fci.log[i].ret.val.some

\* BufReader::new(File::open(path)?)
RdOpen ==
    /\ ~fci.live
    /\ fci' = [live |-> TRUE, reader |-> NewReader, version |-> 0, log |-> <<>>]
    /\ last' = [op |-> "open", arg |-> <<>>, name |-> NoResult, ret |-> NoResult]
    /\ UNCHANGED <<procVars, ctx, env, profile, os, memCaches, cci, file>>

\* read_u16, read_u32 or read_i32 where the next field of the file is an
\* integer; the log keeps what each read returned and where it began
RdReadInt ==
    /\ fci.live
    /\ Len(fci.log) < Len(file.fields)
    /\ RdGoesOn
    /\ \E fd \in {file.fields[Len(fci.log) + 1]} :
         /\ fd.kind = "int"
         /\ \E r \in {read_int(FieldsFile, fci.reader, file.order, fd.size, fd.signed)} :
              fci' = [fci EXCEPT !.reader = r.rd,
                                 !.log = Append(@, [ret |-> r.ret, off |-> fci.reader.off])]
    /\ last' = [op |-> "read_int", arg |-> <<>>, name |-> NoResult, ret |-> NoResult]
    /\ UNCHANGED <<procVars, ctx, env, profile, os, memCaches, cci, file>>

\* FileData::read_data of a cache where the next field of the file is data
\* after a 32-bit length
RdReadData ==
    /\ fci.live
    /\ Len(fci.log) < Len(file.fields)
    /\ RdGoesOn
    /\ \E fd \in {file.fields[Len(fci.log) + 1]} :
         /\ fd.kind = "data" /\ fd.size = 4
         /\ \E r \in {read_data(FieldsFile, fci.reader, file.order)} :
              fci' = [fci EXCEPT !.reader = r.rd,
                                 !.log = Append(@, [ret |-> r.ret, off |-> fci.reader.off])]
    /\ last' = [op |-> "read_data", arg |-> <<>>, name |-> NoResult, ret |-> NoResult]
    /\ UNCHANGED <<procVars, ctx, env, profile, os, memCaches, cci, file>>

\* FileData::read_data of a keytab where the next field of the file is data
\* after a 16-bit length
KtRdReadData ==
    /\ fci.live
    /\ Len(fci.log) < Len(file.fields)
    /\ RdGoesOn
    /\ \E fd \in {file.fields[Len(fci.log) + 1]} :
         /\ fd.kind = "data" /\ fd.size = 2
         /\ \E r \in {kt_read_data(FieldsFile, fci.reader, file.order)} :
              fci' = [fci EXCEPT !.reader = r.rd,
                                 !.log = Append(@, [ret |-> r.ret, off |-> fci.reader.off])]
    /\ last' = [op |-> "kt_read_data", arg |-> <<>>, name |-> NoResult, ret |-> NoResult]
    /\ UNCHANGED <<procVars, ctx, env, profile, os, memCaches, cci, file>>

\* credential.is_config() and credential.get_config() on the credential the
\* last next() returned
CredGetConfig ==
    /\ fci.live
    /\ Len(fci.log) >= 1
    /\ fci.log[Len(fci.log)].some
    /\ fci.log[Len(fci.log)].val.ok
    /\ \E cred \in {fci.log[Len(fci.log)].val.val} :
         last' = [ op |-> "get_config", arg |-> cred, name |-> NoResult,
                   ret |-> get_config(cred), is_config |-> is_config(cred) ]
    /\ UNCHANGED <<procVars, ctx, env, profile, os, memCaches, cci, file, fci>>

\* the credentials iterator is dropped
FccDrop ==
    /\ fci.live
    /\ fci' = NoCredIter
    /\ last' = [op |-> "drop", arg |-> <<>>, name |-> NoResult, ret |-> NoResult]
    /\ UNCHANGED <<procVars, ctx, env, profile, os, memCaches, cci, file>>

\* the credentials iterator is dropped and cache.credentials_iter(context) is
\* called a second time; before keeps what the first iterator returned
FccScanAgain ==
    /\ fci.live
    /\ "before" \notin DOMAIN fci
    /\ \E r \in {fcc_credentials_iter(ctx, OpenFile)} :
         /\ ctx' = r.ctx
         /\ fci' = [ live    |-> r.ret.ok,
                     reader  |-> IF r.ret.ok THEN r.ret.val.reader ELSE NewReader,
                     version |-> IF r.ret.ok THEN r.ret.val.version ELSE 0,
                     log     |-> <<>>,
                     before  |-> fci.log ]
         /\ last' = [op |-> "credentials_iter", arg |-> <<>>, name |-> NoResult, ret |-> r.ret]
    /\ UNCHANGED <<procVars, env, profile, os, memCaches, cci, file>>

\* keytab.entries_iter() on the FILE keytab of the file
KtEntriesIter ==
    /\ ~fci.live
    /\ \E r \in {kt_entries_iter(OpenFile)} :
         last' = [op |-> "entries_iter", arg |-> <<>>, name |-> NoResult, ret |-> r.ret]
    /\ UNCHANGED <<procVars, ctx, env, profile, os, memCaches, cci, file, fci>>

\* keytab.entries_iter() on the FILE keytab of the file, and the iterator it
\* returned
KtIterNew ==
    /\ ~fci.live
    /\ \E r \in {kt_entries_iter(OpenFile)} :
         /\ fci' = IF r.ret.ok
                   THEN [ live |-> TRUE, reader |-> r.ret.val.reader,
                          version |-> r.ret.val.version, log |-> <<>> ]
                   ELSE NoCredIter
         /\ last' = [op |-> "entries_iter", arg |-> <<>>, name |-> NoResult, ret |-> r.ret]
    /\ UNCHANGED <<procVars, ctx, env, profile, os, memCaches, cci, file>>

\* next() on the entries iterator, called as a for loop does, until it
\* returns None; the log keeps what each call returned and the offset it left
\* the reader at
KtIterNext ==
    /\ fci.live
    /\ Len(fci.log) < MaxKtReads
    /\ \A i \in 1..Len(fci.log) : fci.log[i].ret.some
    /\ \E r \in {EntriesIter_next(OpenFile, fci.reader, fci.version)} :
         fci' = [fci EXCEPT !.reader = r.rd, !.log = Append(@, [ret |-> r.ret, off |-> r.rd.off])]
    /\ last' = [op |-> "next", arg |-> <<>>, name |-> NoResult, ret |-> NoResult]
    /\ UNCHANGED <<procVars, ctx, env, profile, os, memCaches, cci, file>>

\* the entries iterator is dropped
KtIterDrop ==
    /\ fci.live
    /\ fci' = NoCredIter
    /\ last' = [op |-> "drop", arg |-> <<>>, name |-> NoResult, ret |-> NoResult]
    /\ UNCHANGED <<procVars, ctx, env, profile, os, memCaches, cci, file>>

\* the file is replaced by another one while no iterator reads it
WriteFile(d) ==
    /\ ~fci.live
    /\ file' = d
    /\ file' # file
    /\ last' = [op |-> "write", arg |-> <<>>, name |-> NoResult, ret |-> NoResult]
    /\ UNCHANGED <<procVars, ctx, env, profile, os, memCaches, cci, fci>>

-----------------------------------------------------------------------------
(* Actions of the threads.  A call of resolve goes through the statements  *)
(* of credential_cache/memory_data.rs 30-55 (keytab/memory_data.rs 23-41); *)
(* another thread may run between any two of them.                         *)

\* thread t calls the MEMORY resolve of a registry for a name
CallResolve(t, kind, name) ==
    /\ threads[t].pc = "idle"
    /\ threads[t].budget > 0
    /\ threads' = [threads EXCEPT ![t].pc = "lock_get", ![t].op = "resolve",
                                  ![t].kind = kind, ![t].name = name, ![t].handle = 0,
                                  ![t].budget = @ - 1]
    /\ UNCHANGED <<libVars, registry, heap, locks, klist>>

\* MEMORY_CACHES.lock(): waits until the registry's Mutex is free
LockMap(t) ==
    /\ threads[t].pc \in {"lock_get", "lock_insert"}
    /\ locks.map[threads[t].kind] = 0
    /\ locks' = [locks EXCEPT !.map[threads[t].kind] = t]
    /\ threads' = [threads EXCEPT ![t].pc = IF @ = "lock_get" THEN "get" ELSE "insert"]
    /\ UNCHANGED <<libVars, registry, heap, klist>>

\* .get(name).map(Arc::clone); the guard is dropped with the statement
Get(t) ==
    /\ threads[t].pc = "get"
    /\ \E found \in {registry_get(registry, threads[t].kind, threads[t].name)} :
         threads' = [threads EXCEPT ![t].pc = IF found.some THEN "sync" ELSE "create",
                                    ![t].handle = IF found.some THEN found.val ELSE 0]
    /\ locks' = drop_map_guard(locks, threads[t].kind)
    /\ UNCHANGED <<libVars, registry, heap, klist>>

\* None => Arc::new(Mutex::new(create_memory_cache(name)))
Create(t) ==
    /\ threads[t].pc = "create"
    /\ heap' = Append(heap, new_object(threads[t].kind, threads[t].name))
    /\ threads' = [threads EXCEPT ![t].pc = "lock_insert", ![t].handle = Len(heap) + 1]
    /\ UNCHANGED <<libVars, registry, locks, klist>>

\* .insert(name.to_owned(), Arc::clone(&cache)); the guard is dropped with
\* the statement
Insert(t) ==
    /\ threads[t].pc = "insert"
    /\ registry' = registry_insert(registry, threads[t].kind, threads[t].name, threads[t].handle)
    /\ locks' = drop_map_guard(locks, threads[t].kind)
    /\ threads' = [threads EXCEPT ![t].pc = "sync"]
    /\ UNCHANGED <<libVars, heap, klist>>

\* the context of the thread after the block of memory_data.rs 47-53, which
\* locks the cache, copies its offsets and drops the guard at its end
sync_from_cache(c, data) ==
    IF sync_kdctime(c) /\ time_offset_valid(c)
    THEN set_time_offset_valid([c EXCEPT !.time_offset = data.time_offset,
                                         !.usec_offset = data.usec_offset])
    ELSE c

\* resolve returns the handle; the cache resolve first runs the block that
\* locks the cache when the context asks for it
Return(t) ==
    /\ threads[t].pc = "sync"
    /\ (threads[t].kind = "ccache" /\ sync_kdctime(threads[t].ctx) /\ time_offset_valid(threads[t].ctx))
          => locks.obj[threads[t].handle] = 0
    /\ threads' = [threads EXCEPT
          ![t].pc = "idle",
          ![t].ctx = IF threads[t].kind = "ccache"
                     THEN sync_from_cache(@, heap[threads[t].handle].data) ELSE @,
          ![t].rets = Append(@, [kind |-> threads[t].kind, name |-> threads[t].name,
                                 handle |-> threads[t].handle])]
    /\ UNCHANGED <<libVars, registry, heap, locks, klist>>

\* thread t goes to use a handle it was returned (klist.rs 215 and 426)
CallScan(t, i) ==
    /\ threads[t].pc = "idle"
    /\ threads[t].budget > 0
    /\ i \in 1..Len(threads[t].rets)
    /\ threads' = [threads EXCEPT ![t].pc = "lock_object", ![t].op = "scan",
                                  ![t].kind = threads[t].rets[i].kind,
                                  ![t].name = threads[t].rets[i].name,
                                  ![t].handle = threads[t].rets[i].handle,
                                  ![t].budget = @ - 1]
    /\ UNCHANGED <<libVars, registry, heap, locks, klist>>

\* cache.lock(): waits until the Mutex of the cache or keytab is free
LockObject(t) ==
    /\ threads[t].pc = "lock_object"
    /\ locks.obj[threads[t].handle] = 0
    /\ locks' = [locks EXCEPT !.obj[threads[t].handle] = t]
    /\ threads' = [threads EXCEPT ![t].pc = "scan"]
    /\ UNCHANGED <<libVars, registry, heap, klist>>

\* credentials_iter / entries_iter of the MEMORY backend run to the end under
\* the guard, which is then dropped
Scan(t) ==
    /\ threads[t].pc = "scan"
    /\ threads' = [threads EXCEPT
          ![t].pc = "idle",
          ![t].scanned = IF threads[t].kind = "ccache"
                         THEN Len(heap[threads[t].handle].data.credentials)
                         ELSE Len(heap[threads[t].handle].data.entries)]
    /\ locks' = drop_object_guard(locks, threads[t].handle)
    /\ UNCHANGED <<libVars, registry, heap, klist>>

\* one step of one thread
ThreadStep(t) ==
    \/ \E kind \in Kinds, name \in MemNames : CallResolve(t, kind, name)
    \/ LockMap(t)
    \/ Get(t)
    \/ Create(t)
    \/ Insert(t)
    \/ Return(t)
    \/ \E i \in 1..MaxOps : CallScan(t, i)
    \/ LockObject(t)
    \/ Scan(t)

-----------------------------------------------------------------------------
(* Actions of klist.  klist holds the process: the options and the name it *)
(* was given, NOW, its position in run, what it has printed and its exit   *)
(* status.  ctx is its Context and memCaches its MEMORY_CACHES.            *)

\* the process before main: given are the options, name the name argument,
\* now the clock, profile_ok whether the profile can be loaded, kdc_timesync
\* the profile's setting, kt_env the keytab names in the environment
NewKlist(given, name, now, profile_ok, kdc_timesync, kt_env) ==
    [ ran |-> TRUE, pc |-> "run", given |-> given, name |-> name, now |-> now,
      profile_ok |-> profile_ok, kdc_timesync |-> kdc_timesync, kt_env |-> kt_env,
      inited |-> FALSE, entered |-> "-", out |-> <<>>, ret |-> NoResult, exit |-> -1 ]

\* the disk as a call of klist meets it
Disk == CHOOSE dk \in {[state |-> os.file, f |-> [bytes |-> b, native |-> os.native]] :
                         b \in {Bytes(file, os.native)}} : TRUE

\* main: the exit status of a result
exit_code(ret) == IF ret.ok THEN 0 ELSE 1

\* the end of main after one of the functions run goes on with
Exit(k, entered, out, ret) ==
    [k EXCEPT !.pc = "exit", !.entered = entered, !.out = out, !.ret = ret, !.exit = exit_code(ret)]

\* run, lines 83-125: the flags are checked, the context is made and the
\* name becomes its default cache name
KlistRun ==
    /\ klist.ran /\ klist.pc = "run"
    /\ \E args \in {Args(klist.given, klist.name)} :
         IF run_usage(args)
         THEN /\ klist' = Exit(klist, "-", <<>>, Err("Usage: klist"))
              /\ ctx' = ctx
         ELSE IF ~klist.profile_ok
         THEN /\ klist' = Exit(klist, "-", <<>>, Err("while initializing krb5"))
              /\ ctx' = ctx
         ELSE /\ klist' = [klist EXCEPT !.pc = run_dispatch(args), !.inited = TRUE]
              /\ ctx' = IF args.name.some /\ mode_of(args) # "KEYTAB"
                        THEN set_default_ccname(NewContext(klist.kdc_timesync), args.name.val)
                        ELSE NewContext(klist.kdc_timesync)
    /\ UNCHANGED <<threads, registry, heap, locks, env, profile, os, memCaches, last, cci, file, fci>>

\* list_all_ccaches
ListAllCcaches ==
    /\ klist.ran /\ klist.pc = "list_all_ccaches"
    /\ \E dk \in {Disk}, w \in {World} : \E r \in {list_all_ccaches(ctx, memCaches, w, dk, klist.now)} :
         /\ klist' = Exit(klist, "list_all_ccaches", r.out, r.ret)
         /\ ctx' = r.ctx
         /\ memCaches' = r.reg
    /\ UNCHANGED <<threads, registry, heap, locks, env, profile, os, last, cci, file, fci>>

\* show_all_ccaches
ShowAllCcaches ==
    /\ klist.ran /\ klist.pc = "show_all_ccaches"
    /\ \E dk \in {Disk}, w \in {World}, args \in {Args(klist.given, klist.name)} :
       \E r \in {show_all_ccaches(ctx, memCaches, w, dk, args, klist.now)} :
         /\ klist' = Exit(klist, "show_all_ccaches", r.out, r.ret)
         /\ ctx' = r.ctx
         /\ memCaches' = r.reg
    /\ UNCHANGED <<threads, registry, heap, locks, env, profile, os, last, cci, file, fci>>

\* do_ccache
DoCcache ==
    /\ klist.ran /\ klist.pc = "do_ccache"
    /\ \E dk \in {Disk}, w \in {World}, args \in {Args(klist.given, klist.name)} :
       \E r \in {do_ccache(ctx, memCaches, w, dk, args, klist.now)} :
         /\ klist' = Exit(klist, "do_ccache", r.out, r.ret)
         /\ ctx' = r.ctx
         /\ memCaches' = r.reg
    /\ UNCHANGED <<threads, registry, heap, locks, env, profile, os, last, cci, file, fci>>

\* do_keytab
DoKeytab ==
    /\ klist.ran /\ klist.pc = "do_keytab"
    /\ \E dk \in {Disk}, args \in {Args(klist.given, klist.name)} :
       \E r \in {do_keytab(args, klist.kt_env, os, dk)} :
         klist' = Exit(klist, "do_keytab", r.out, r.ret)
    /\ UNCHANGED <<threads, registry, heap, locks, ctx, env, profile, os, memCaches, last, cci, file, fci>>

-----------------------------------------------------------------------------
(* SpecResolve: any sequence of CredentialCache::resolve calls             *)

InitResolve ==
    /\ ctx \in {NewContext(sync) : sync \in BOOLEAN}
    /\ env = None
    /\ profile = None
    /\ os \in {o \in OsStates : o.uid = 0}
    /\ memCaches = <<>>
    /\ last = [op |-> "init", arg |-> <<>>, name |-> NoResult, ret |-> NoResult]
    /\ cci = NoCachesIter
    /\ NoProcess
    /\ file = NoFile
    /\ fci = NoCredIter

NextResolve == \E name \in Names : CcResolve(name)

SpecResolve == InitResolve /\ [][NextResolve]_vars

-----------------------------------------------------------------------------
(* SpecDefault: default-name lookups while the override and the            *)
(* environment change                                                      *)

InitDefault ==
    /\ ctx \in {NewContext(sync) : sync \in BOOLEAN}
    /\ env \in {None} \cup {Some(n) : n \in EnvNames}
    /\ profile \in ProfileValues
    /\ os \in OsStates
    /\ memCaches = <<>>
    /\ last = [op |-> "init", arg |-> <<>>, name |-> NoResult, ret |-> NoResult]
    /\ cci = NoCachesIter
    /\ NoProcess
    /\ file = NoFile
    /\ fci = NoCredIter

NextDefault ==
    \/ CcDefault
    \/ \E name \in EnvNames : SetDefaultCcname(name)
    \/ \E v \in {None} \cup {Some(n) : n \in EnvNames} : SetEnv(v)

SpecDefault == InitDefault /\ [][NextDefault]_vars

-----------------------------------------------------------------------------
(* SpecCaches: enumeration of the caches of a context whose default name   *)
(* is an override (klist NAME), KRB5CCNAME, the profile or the built-in    *)

InitCaches ==
    /\ \E sync \in BOOLEAN, o \in {None} \cup {Some(n) : n \in Names} :
         ctx = [NewContext(sync) EXCEPT !.default_ccname = o]
    /\ env \in {None, Some(MEMORY \o <<":","a">>)}
    /\ profile \in ProfileValues
    /\ os \in {[o EXCEPT !.file = f] : o \in OsStates, f \in FileStates}
    /\ memCaches = <<>>
    /\ last = [op |-> "init", arg |-> <<>>, name |-> NoResult, ret |-> NoResult]
    /\ cci = NoCachesIter
    /\ NoProcess
    /\ file = NoFile
    /\ fci = NoCredIter

NextCaches ==
    \/ CachesIterNew
    \/ CachesIterNext
    \/ CachesIterDrop

SpecCaches == InitCaches /\ [][NextCaches]_vars

-----------------------------------------------------------------------------
(* SpecHdr: opens of version 4 files with every header on one context      *)

InitHdr ==
    /\ ctx \in {NewContext(sync) : sync \in BOOLEAN}
    /\ env = None
    /\ profile = None
    /\ os \in {o \in OsStates : o.uid = 0}
    /\ memCaches = <<>>
    /\ last = [op |-> "init", arg |-> <<>>, name |-> NoResult, ret |-> NoResult]
    /\ cci = NoCachesIter
    /\ NoProcess
    /\ file \in HeaderFiles
    /\ fci = NoCredIter

NextHdr ==
    \/ \E d \in HeaderFiles : WriteFile(d)
    \/ FccCredentialsIter
    \/ FccGetPrincipal
    \/ FccNext
    \/ FccDrop

SpecHdr == InitHdr /\ [][NextHdr]_vars

-----------------------------------------------------------------------------
(* SpecFile: one file, whole or cut at any place, opened as a cache and as *)
(* a keytab and iterated                                                   *)

InitFile ==
    /\ ctx = NewContext(TRUE)
    /\ env = None
    /\ profile = None
    /\ os \in OsStates
    /\ memCaches = <<>>
    /\ last = [op |-> "init", arg |-> <<>>, name |-> NoResult, ret |-> NoResult]
    /\ cci = NoCachesIter
    /\ NoProcess
    /\ \/ \E d \in WholeFiles :
            \* versions 3 and 4 are written alike on every host
            /\ d.version >= 3 => os.native = "Big"
            /\ \E c \in {-1} \cup 0..(Len(FullBytes(d, os.native)) - 1) : file = [d EXCEPT !.cut = c]
       \/ file \in BadMagicFiles
    /\ fci = NoCredIter

NextFile ==
    \/ FccCredentialsIter
    \/ FccGetPrincipal
    \/ FccNext
    \/ FccDrop
    \/ KtEntriesIter

SpecFile == InitFile /\ [][NextFile]_vars

-----------------------------------------------------------------------------
(* SpecLarge: whole files whose second credential starts at or shortly     *)
(* before the offset where the reader's first buffer ends                  *)

InitLarge ==
    /\ ctx = NewContext(TRUE)
    /\ env = None
    /\ profile = None
    /\ os \in OsStates
    /\ memCaches = <<>>
    /\ last = [op |-> "init", arg |-> <<>>, name |-> NoResult, ret |-> NoResult]
    /\ cci = NoCachesIter
    /\ NoProcess
    /\ \E v \in 1..4, k \in {"live", "removed"}, j \in 0..MaxStraddle :
         \E d \in { [ first |-> 5, version |-> v, header |-> Header(<<DeltaTime(1, 2)>>), cut |-> -1,
                      creds |-> <<[id |-> 1, kind |-> k, pad |-> 0], [id |-> 2, kind |-> "live", pad |-> 0]>> ] } :
           file = [d EXCEPT !.creds[1].pad = PadFor(d, os.native, j)]
    /\ fci = NoCredIter

NextLarge ==
    \/ FccCredentialsIter
    \/ FccNext
    \/ FccDrop

SpecLarge == InitLarge /\ [][NextLarge]_vars

-----------------------------------------------------------------------------
(* SpecOneThread: one thread resolving and using MEMORY caches and keytabs *)

\* the largest number of calls of the single thread
MaxOpsAlone == 4

InitThreads(budgets) ==
    /\ ctx = NewContext(TRUE)
    /\ env = None
    /\ profile = None
    /\ os \in {o \in OsStates : o.uid = 0}
    /\ memCaches = <<>>
    /\ last = [op |-> "init", arg |-> <<>>, name |-> NoResult, ret |-> NoResult]
    /\ cci = NoCachesIter
    /\ file = NoFile
    /\ fci = NoCredIter
    /\ threads = [t \in Threads |-> NewThread(budgets[t])]
    /\ registry = EmptyRegistry
    /\ heap = <<>>
    /\ locks = NoLocks
    /\ klist = NoKlist

InitOneThread == InitThreads([t \in Threads |-> IF t = 1 THEN MaxOpsAlone ELSE 0])

NextThreads == \E t \in Threads : ThreadStep(t)

SpecOneThread == InitOneThread /\ [][NextThreads]_vars

-----------------------------------------------------------------------------
(* SpecThreads: the threads run concurrently                               *)

InitAllThreads == InitThreads([t \in Threads |-> MaxOps])

SpecThreads == InitAllThreads /\ [][NextThreads]_vars

-----------------------------------------------------------------------------
(* SpecTicket: Credential::get_ticket on one credential                    *)

\* the ticket of the local ticket-granting service
GoodTicket == Credential(4, [id |-> 1, kind |-> "tgt", pad |-> 0]).ticket

\* b with its i-th byte replaced
WithByte(b, i, v) == [b EXCEPT ![i] = v]

\* ticket fields: a ticket, a ticket under a name type that is not its number
\* of components, every cut of a ticket, a ticket followed by a byte, tickets
\* with another outer tag, another version tag, another realm string type, a
\* longer outer length, and bytes that are no DER
TicketFields ==
    {GoodTicket, Credential(4, [id |-> 1, kind |-> "host", pad |-> 0]).ticket}
      \cup {SubSeq(GoodTicket, 1, n) : n \in 0..(Len(GoodTicket) - 1)}
      \cup {GoodTicket \o <<0>>, WithByte(GoodTicket, 1, 48), WithByte(GoodTicket, 5, 128),
            WithByte(GoodTicket, 12, 12), WithByte(GoodTicket, 2, Len(GoodTicket)),
            Zeros(3), <<97, 0>>, <<107>>}

\* servers: configuration entries of one to three components, servers that
\* share only the realm or only the first component with them, and services
ServerFields ==
    { [realm |-> r, components |-> c, name_type |-> NT_UNKNOWN] :
        r \in {as_bytes(CONF_REALM)},
        c \in {<<as_bytes(CONF_NAME)>>, <<as_bytes(CONF_NAME), <<107>>>>,
               <<as_bytes(CONF_NAME), <<107>>, <<82>>>>,
               <<>>, <<<<107>>, as_bytes(CONF_NAME)>>,
               <<SubSeq(as_bytes(CONF_NAME), 1, Len(CONF_NAME) - 1)>>} }
      \cup { [realm |-> r, components |-> <<as_bytes(CONF_NAME), <<107>>>>, name_type |-> NT_UNKNOWN] :
               r \in {<<82>>, SubSeq(as_bytes(CONF_REALM), 1, Len(CONF_REALM) - 1), <<>>} }
      \cup { Server(4, [id |-> 1, kind |-> k, pad |-> 0]) : k \in {"tgt", "service"} }

\* the credentials get_ticket is called on
TicketCredentials ==
    { [Credential(4, [id |-> 1, kind |-> "config", pad |-> 0]) EXCEPT !.server = s, !.ticket = t] :
        s \in ServerFields, t \in TicketFields }

InitTicket ==
    /\ ctx = NewContext(FALSE)
    /\ env = None
    /\ profile = None
    /\ os \in {o \in OsStates : o.uid = 0}
    /\ memCaches = <<>>
    /\ last \in {[op |-> "init", arg |-> cred, name |-> NoResult, ret |-> NoResult] :
                   cred \in TicketCredentials}
    /\ cci = NoCachesIter
    /\ NoProcess
    /\ file = NoFile
    /\ fci = NoCredIter

\* credential.get_ticket(): last.ret holds what went to the decoder and what
\* came back
GetTicket ==
    /\ last.op = "init"
    /\ \E r \in {get_ticket(last.arg)} :
         last' = [op |-> "get_ticket", arg |-> last.arg, name |-> NoResult, ret |-> r]
    /\ UNCHANGED <<procVars, ctx, env, profile, os, memCaches, cci, file, fci>>

NextTicket == GetTicket

SpecTicket == InitTicket /\ [][NextTicket]_vars

-----------------------------------------------------------------------------
(* SpecKtResolve: Keytab::resolve on one name, with MEMORY_KEYTABS empty    *)
(* and holding a keytab, and Keytab::get_name on the keytab it returned    *)

\* what a keytab name may start with: nothing, the three backends, a drive
\* letter, a one-byte prefix that is no letter, an unknown backend, and a
\* path
KtSchemes ==
    { <<>>, FILE \o <<":">>, WRFILE \o <<":">>, MEMORY \o <<":">>, <<"C", ":">>, <<"1", ":">>,
      <<"K", "R", ":">>, <<"/", "t">> }

KtResidualChars == {"a", ":", "/"}

\* the names given to Keytab::resolve
KtNames == {s \o r : s \in KtSchemes, r \in SeqsUpTo(KtResidualChars, MaxResidualLen)}

InitKtResolve ==
    /\ ctx = NewContext(FALSE)
    /\ env = None
    /\ profile = None
    /\ os \in {o \in OsStates : o.uid = 0}
    /\ memCaches = <<>>
    /\ last \in {[op |-> "kt_init", arg |-> name, name |-> NoResult, ret |-> NoResult] : name \in KtNames}
    /\ cci = NoCachesIter
    /\ threads = [t \in Threads |-> NewThread(0)]
    /\ registry \in {[ccache |-> <<>>, keytab |-> reg] :
                       reg \in {<<>>, mkt_registry(<<>>, <<"a">>)}}
    /\ heap = <<>>
    /\ locks = NoLocks
    /\ klist = NoKlist
    /\ file = NoFile
    /\ fci = NoCredIter

\* the lengths given to Keytab::get_name: up to one more than the longest
\* name
KtLengths == 0 .. (Len(WRFILE) + 1 + MaxResidualLen + 1)

NextKtResolve ==
    \/ KtResolve
    \/ \E length \in KtLengths : KtGetName(length)

SpecKtResolve == InitKtResolve /\ [][NextKtResolve]_vars

-----------------------------------------------------------------------------
(* SpecKeytab: a FILE keytab of entries, holes and end marks, iterated     *)

\* an entry of a keytab as the files hold it
KtLive(id, keylen, vno32, slack) ==
    [kind |-> "entry", id |-> id, enctype |-> 18, keylen |-> keylen, vno32 |-> vno32, slack |-> slack]

\* a record that is no entry: a hole, the length 0, the length i32::MIN
KtOther(kind, slack) ==
    [kind |-> kind, id |-> 0, enctype |-> 0, keylen |-> 0, vno32 |-> -1, slack |-> slack]

\* the length of the entry of s/id@R with a key of two bytes and no 32-bit key
\* version, as version 1 and as version 2 write it
KtEntryLen(version) == Len(enc_kt_entry(version, "Big", KtEntry(version, KtLive(1, 2, -1, 0))))

\* the records of the keytabs: entries with the 32-bit key version absent,
\* zero and 11, followed by no byte, by 3 and by 4 zero bytes; holes of 3
\* bytes and of the size of an entry; the two lengths that are no record
KtRecords(version) ==
    {KtLive(1, 2, -1, 0), KtLive(7, 2, 0, 0)}
    \cup {KtLive(7, 2, v, k) : v \in {-1, 11}, k \in {0, 3, 4}}
    \cup {KtOther("hole", 3), KtOther("hole", KtEntryLen(version)), KtOther("end", 0), KtOther("min", 0)}

\* an entry whose key has no byte, and one whose key does not fit into the
\* buffer of the reader
KtUnusual == {KtLive(2, 0, -1, 0), KtLive(2, BufCapacity, -1, 0)}

\* the bodies of the keytabs: every sequence of the records, and an unusual
\* entry between them
KtBodies(version) ==
    SeqsUpTo(KtRecords(version), MaxKtRecords)
    \cup {before \o <<u, KtLive(1, 2, -1, 0)>> :
            before \in {<<>>, <<KtOther("hole", 3)>>, <<KtLive(7, 2, 11, 0)>>}, u \in KtUnusual}

InitKeytab ==
    /\ ctx = NewContext(TRUE)
    /\ env = None
    /\ profile = None
    /\ os \in OsStates
    /\ memCaches = <<>>
    /\ last = [op |-> "init", arg |-> <<>>, name |-> NoResult, ret |-> NoResult]
    /\ cci = NoCachesIter
    /\ NoProcess
    /\ \E v \in 1..2 :
         \* version 2 is written alike on every host
         /\ v = 2 => os.native = "Big"
         /\ file \in {[first |-> 5, version |-> v, records |-> rs, cut |-> -1] : rs \in KtBodies(v)}
    /\ fci = NoCredIter

NextKeytab ==
    \/ KtIterNew
    \/ KtIterNext
    \/ KtIterDrop

SpecKeytab == InitKeytab /\ [][NextKeytab]_vars

-----------------------------------------------------------------------------
(* SpecPrincipal: a name parsed and unparsed again, and a principal        *)
(* unparsed, parsed again and compared with itself                         *)

\* the largest number of bytes of a name given to parse_name
MaxNameLen == 4

\* the bytes of the names: a letter, '/', '@' and the backslash
NameBytes == {97, COMPONENT_SEP, REALM_SEP, BACKSLASH}

\* the names given to parse_name: every short one, a ticket-granting and a
\* well-known one
ParseNames ==
    SeqsUpTo(NameBytes, MaxNameLen)
    \cup { as_bytes(KRB5_TGS_NAME) \o <<COMPONENT_SEP, 82, REALM_SEP, 82>>,
           as_bytes(KRB5_WELLKNOWN_NAMESTR) \o <<COMPONENT_SEP, 97, REALM_SEP, 82>> }

\* every combination of the five flags of parse_name
ParseFlags == 0..31

\* the components of the principals given: one or two bytes, which may be
\* '/' and '@' and a byte that is no text, and a/b
GivenComponents ==
    UNION {[1..k -> {97, COMPONENT_SEP, REALM_SEP, 200}] : k \in 1..2} \cup {<<97, COMPONENT_SEP, 98>>}

\* the principals given, as a cache or a keytab file may hold them
GivenPrincipals ==
    { [realm |-> r, components |-> cs, name_type |-> NT_PRINCIPAL] :
        r \in {<<>>, <<82>>}, cs \in SeqsUpTo(GivenComponents, 2) }

\* Context::default_realm
DefaultRealms == {<<>>, <<82>>}

InitPrincipal ==
    /\ ctx = NewContext(FALSE)
    /\ env = None
    /\ profile = None
    /\ os \in {o \in OsStates : o.uid = 0}
    /\ memCaches = <<>>
    /\ last \in { [ op |-> "name", arg |-> [default_realm |-> dr, flags |-> fl, given |-> n],
                     name |-> Ok(n), ret |-> NoResult, equal |-> FALSE ] :
                     dr \in DefaultRealms, fl \in ParseFlags, n \in ParseNames }
               \cup
               { [ op |-> "principal", arg |-> [default_realm |-> dr, flags |-> 0, given |-> p],
                   name |-> NoResult, ret |-> Ok(p), equal |-> FALSE ] :
                   dr \in DefaultRealms, p \in GivenPrincipals }
    /\ cci = NoCachesIter
    /\ NoProcess
    /\ file = NoFile
    /\ fci = NoCredIter

NextPrincipal ==
    \/ PrParseName
    \/ PrUnparseName
    \/ PrCompare

SpecPrincipal == InitPrincipal /\ [][NextPrincipal]_vars

-----------------------------------------------------------------------------
(* SpecReread: the credentials of one file read twice through one Context  *)
(* whose state changes in between                                          *)

\* the contexts a scan starts from: SYNC_KDCTIME set or not, a time offset
\* installed by an earlier open or not, a default name cached or not
RereadContexts ==
    { [c EXCEPT !.default_ccname = n] :
        c \in {NewContext(FALSE), NewContext(TRUE),
               set_time_offset_valid([NewContext(TRUE) EXCEPT !.time_offset = 3, !.usec_offset = 4])},
        n \in {None, Some(FILE \o <<":", "/", "t">>)} }

InitReread ==
    /\ ctx \in RereadContexts
    /\ env = None
    /\ profile = None
    /\ os \in OsStates
    /\ memCaches = <<>>
    /\ last = [op |-> "init", arg |-> <<>>, name |-> NoResult, ret |-> NoResult]
    /\ cci = NoCachesIter
    /\ NoProcess
    /\ file \in WholeFiles
    \* versions 3 and 4 are written alike on every host
    /\ file.version >= 3 => os.native = "Big"
    /\ fci = NoCredIter

NextReread ==
    \/ FccCredentialsIter
    \/ FccNext
    \/ FccScanAgain
    \/ \E name \in {FILE \o <<":", "/", "t">>, MEMORY \o <<":", "m">>} : SetDefaultCcname(name)

SpecReread == InitReread /\ [][NextReread]_vars

-----------------------------------------------------------------------------
(* SpecConfig: whole files that hold configuration entries, iterated, and  *)
(* get_config on each credential read                                      *)

\* the credentials of a file: configuration entries with one to three
\* components in their server and a ticket in every place
ConfigLists ==
    UNION { { [i \in 1..n |-> [id |-> i, kind |-> ks[i], pad |-> 0]] :
                ks \in [1..n -> ConfigKinds \cup {"tgt"}] } : n \in 0..MaxCreds }

ConfigFiles ==
    { [first |-> 5, version |-> v, header |-> Header(<<DeltaTime(1, 2)>>), creds |-> cs, cut |-> -1] :
        v \in 1..4, cs \in ConfigLists }

InitConfig ==
    /\ ctx = NewContext(FALSE)
    /\ env = None
    /\ profile = None
    /\ os \in OsStates
    /\ memCaches = <<>>
    /\ last = [op |-> "init", arg |-> <<>>, name |-> NoResult, ret |-> NoResult]
    /\ cci = NoCachesIter
    /\ NoProcess
    /\ file \in ConfigFiles
    \* versions 3 and 4 are written alike on every host
    /\ file.version >= 3 => os.native = "Big"
    /\ fci = NoCredIter

NextConfig ==
    \/ FccCredentialsIter
    \/ FccNext
    \/ CredGetConfig

SpecConfig == InitConfig /\ [][NextConfig]_vars

-----------------------------------------------------------------------------
(* SpecSame: the enumeration of caches and CredentialCache::default on one *)
(* context, for default names of every shape                               *)

\* default names: FILE names whose path holds a ':', whose path reads as the
\* name of a MEMORY or a FILE cache or starts with a drive letter, plain
\* paths, MEMORY names, names with a one-byte prefix, and an unknown backend
SameNames ==
    { FILE \o <<":", "/", "t", "/", "a", ":", "b">>,
      FILE \o <<":">> \o MEMORY \o <<":", "x">>,
      FILE \o <<":">> \o FILE \o <<":", "x">>,
      FILE \o <<":", "C", ":", "a">>,
      FILE \o <<":", "/", "t">>,
      <<"/", "t">>,
      MEMORY \o <<":", "x">>,
      MEMORY \o <<":", "a", ":", "b">>,
      <<"C", ":", "a">>,
      <<"1", ":", "a">>,
      <<":", "a">>,
      <<"K", "R", ":", "a">> }

InitSame ==
    /\ \E sync \in BOOLEAN, o \in {None} \cup {Some(n) : n \in SameNames} :
         ctx = [NewContext(sync) EXCEPT !.default_ccname = o]
    /\ env \in {None, Some(FILE \o <<":", "/", "t", ":", "e">>)}
    /\ profile = None
    /\ os \in {[o EXCEPT !.file = f] : o \in OsStates, f \in FileStates}
    /\ memCaches = <<>>
    /\ last = [op |-> "init", arg |-> <<>>, name |-> NoResult, ret |-> NoResult]
    /\ cci = NoCachesIter
    /\ NoProcess
    /\ file = NoFile
    /\ fci = NoCredIter

NextSame ==
    \/ CcDefault
    \/ CachesIterNew
    \/ CachesIterNext
    \/ CachesIterDrop

SpecSame == InitSame /\ [][NextSame]_vars

-----------------------------------------------------------------------------
(* SpecReads: files of three fields read field by field, the second field  *)
(* lying at every place around the end of the reader's first buffer        *)

IntField(size, signed, value) ==
    [kind |-> "int", size |-> size, signed |-> signed, value |-> value, len |-> 0]

\* data of len bytes 9 after a length of size bytes
DataField(size, len) ==
    [kind |-> "data", size |-> size, signed |-> FALSE, value |-> 9, len |-> len]

\* the lengths of the first field: short ones; those that end 0 to
\* MaxStraddle bytes before the end of the first buffer; those that reach
\* beyond it
FirstLens(size) ==
    {1, 3}
    \cup {BufCapacity - size - j : j \in 0..MaxStraddle}
    \cup {BufCapacity - size + 1, BufCapacity, BufCapacity + 5}

\* the fields after the first: integers of each type and data of 3 bytes
LaterFields(size) ==
    {IntField(2, FALSE, 513), IntField(4, FALSE, 66051), IntField(4, TRUE, -2), DataField(size, 3)}

\* the files: data, then two fields; whole, and ending 1 to 3 bytes before
\* the end of the last field.  A cache may hold data of no byte
FieldFiles ==
    { [fields |-> <<DataField(size, n), f2, f3>>, order |-> e, cut |-> -1] :
        size \in {2, 4}, n \in FirstLens(4) \cup FirstLens(2), f2 \in LaterFields(2) \cup LaterFields(4),
        f3 \in {IntField(4, FALSE, 7)}, e \in {"Big", "Little"} }

InitReads ==
    /\ ctx = NewContext(FALSE)
    /\ env = None
    /\ profile = None
    /\ os \in {o \in OsStates : o.uid = 0}
    /\ memCaches = <<>>
    /\ last = [op |-> "init", arg |-> <<>>, name |-> NoResult, ret |-> NoResult]
    /\ cci = NoCachesIter
    /\ NoProcess
    /\ \E d \in FieldFiles :
         /\ d.fields[2].kind = "data" => d.fields[2].size = d.fields[1].size
         /\ \/ file = d
            \/ \E k \in 1..3 :
                 file = [d EXCEPT !.cut = d.fields[1].size + d.fields[1].len
                                           + Len(FieldBytes(d.order, d.fields[2])) + 4 - k]
            \/ d.fields[1].size = 4 /\ file = [d EXCEPT !.fields[1].len = 0]
    /\ fci = NoCredIter

NextReads ==
    \/ RdOpen
    \/ RdReadInt
    \/ RdReadData
    \/ KtRdReadData

SpecReads == InitReads /\ [][NextReads]_vars

-----------------------------------------------------------------------------
(* SpecMemory: every operation on caches, on a context whose default name  *)
(* may be that of a MEMORY cache                                           *)

\* the names given to resolve and to set_default_ccname
MemoryNames ==
    { MEMORY \o <<":", "a">>, MEMORY \o <<":", "b">>, MEMORY \o <<":">>, FILE \o <<":", "/", "t">>,
      <<"K", "R", ":", "a">> }

InitMemory ==
    /\ ctx \in RereadContexts
    /\ env \in {None, Some(MEMORY \o <<":", "a">>)}
    /\ profile = None
    /\ os \in {o \in OsStates : o.uid = 0}
    /\ memCaches = <<>>
    /\ last = [op |-> "init", arg |-> <<>>, name |-> NoResult, ret |-> NoResult]
    /\ cci = NoCachesIter
    /\ NoProcess
    /\ file = NoFile
    /\ fci = NoCredIter

NextMemory ==
    \/ \E name \in MemoryNames : CcResolve(name)
    \/ CcDefault
    \/ \E name \in MemoryNames : SetDefaultCcname(name)
    \/ \E name \in DOMAIN memCaches : McGetPrincipal(name)
    \/ \E name \in DOMAIN memCaches : McCredentialsIter(name)
    \/ CachesIterNew
    \/ CachesIterNext
    \/ CachesIterDrop

SpecMemory == InitMemory /\ [][NextMemory]_vars

-----------------------------------------------------------------------------
(* SpecKlist: one run of klist                                             *)

\* the clock: before every end time, between the two end times of the
\* credentials, and at the later one
Nows == {2, 5, 7}

\* the largest number of credentials in a cache klist is run on
MaxKlistCreds == 2

\* the kinds of credential in those caches
KlistKinds == {"tgt", "old_tgt", "foreign", "service", "old", "host", "config", "removed"}

\* the lists of up to n credentials of those kinds
KlistCreds(n) ==
    UNION { { [i \in 1..m |-> [id |-> i, kind |-> ks[i], pad |-> 0]] : ks \in [1..m -> KlistKinds] } :
            m \in 0..n }

\* whole cache files: of the versions 1 and 4 with up to MaxKlistCreds
\* credentials, of the versions 2 and 3 with up to one
KlistFiles ==
    { [first |-> 5, version |-> v, header |-> Header(<<DeltaTime(1, 2)>>), creds |-> cs, cut |-> -1] :
        v \in {1, 4}, cs \in KlistCreds(MaxKlistCreds) }
    \cup { [first |-> 5, version |-> v, header |-> Header(<<>>), creds |-> cs, cut |-> -1] :
             v \in {2, 3}, cs \in KlistCreds(1) }

\* files that are no cache: empty, and with a version klist does not read
BrokenFiles ==
    { [first |-> 5, version |-> v, header |-> Header(<<>>), creds |-> <<>>, cut |-> c] :
        v \in {4, 5}, c \in {-1, 0} }

\* the records of the keytabs klist is run on
KtRecordLists ==
    { <<>>,
      <<[kind |-> "entry", id |-> 1, enctype |-> 18, keylen |-> 2, vno32 |-> -1, slack |-> 0]>>,
      <<[kind |-> "hole", id |-> 0, enctype |-> 0, keylen |-> 0, vno32 |-> -1, slack |-> 3],
        [kind |-> "entry", id |-> 1, enctype |-> 17, keylen |-> 2, vno32 |-> 11, slack |-> 2]>>,
      <<[kind |-> "entry", id |-> 1, enctype |-> 18, keylen |-> 2, vno32 |-> 0, slack |-> 0],
        [kind |-> "entry", id |-> 2, enctype |-> 99, keylen |-> 2, vno32 |-> -1, slack |-> 0]>> }

\* keytab files of the versions 1 and 2, and of a version that is none
KeytabFiles ==
    { [first |-> 5, version |-> v, records |-> rs, cut |-> -1] : v \in 1..3, rs \in KtRecordLists }

\* the options of the runs on caches
CcacheOptions ==
    { {}, {"s"}, {"l"}, {"A"}, {"A", "s"}, {"C"}, {"c", "e", "C"}, {"c", "f", "d", "a", "n"} }

\* the options of the runs on keytabs
KeytabOptions == { {"k"}, {"k", "t"}, {"k", "e", "K"}, {"k", "i"} }

\* the names given to klist
KlistNames ==
    { None, Some(MEMORY \o <<":", "m">>), Some(<<"/", "t">>), Some(WRFILE \o <<":", "/", "k">>),
      Some(<<"K", "R", ":", "a">>) }

NoKtEnv == [server |-> None, client |-> None]

InitKlist ==
    /\ ctx = NewContext(FALSE)
    /\ env = None
    /\ profile = None
    /\ memCaches = <<>>
    /\ last = [op |-> "init", arg |-> <<>>, name |-> NoResult, ret |-> NoResult]
    /\ cci = NoCachesIter
    /\ fci = NoCredIter
    /\ threads = [t \in Threads |-> NewThread(0)]
    /\ registry = EmptyRegistry
    /\ heap = <<>>
    /\ locks = NoLocks
    /\ \/ \* every combination of options, with no cache and no keytab on disk
          /\ os \in {[o EXCEPT !.file = "absent"] : o \in {o \in OsStates : o.uid = 0}}
          /\ file = NoFile
          /\ \E given \in SUBSET Options, ok \in BOOLEAN :
               klist = NewKlist(given, None, 5, ok, TRUE, NoKtEnv)
       \/ \* runs on cache files; the clock matters to -s and -l only
          /\ os \in OsStates
          /\ file \in KlistFiles
          /\ file.version >= 3 => os.native = "Big"
          /\ \E given \in CcacheOptions, now \in Nows :
               /\ now = 5 \/ given \cap {"s", "l"} # {}
               /\ klist = NewKlist(given, None, now, TRUE, TRUE, NoKtEnv)
       \/ \* runs with a name, and on what is no cache
          /\ os \in {[o EXCEPT !.file = st] : o \in {o \in OsStates : o.uid = 0}, st \in FileStates}
          /\ file \in BrokenFiles \cup {d \in KlistFiles : d.version = 4 /\ Len(d.creds) = 1}
          /\ \E given \in {{}, {"s"}, {"l"}, {"A"}}, name \in KlistNames, sync \in BOOLEAN :
               klist = NewKlist(given, name, 5, TRUE, sync, NoKtEnv)
       \/ \* runs on keytabs
          /\ os \in {[o EXCEPT !.file = st] : o \in OsStates, st \in FileStates}
          /\ file \in KeytabFiles
          /\ \E given \in KeytabOptions, name \in KlistNames,
                kt_env \in {NoKtEnv, [server |-> Some(MEMORY \o <<":", "m">>), client |-> Some(<<"/", "k">>)]} :
               klist = NewKlist(given, name, 5, TRUE, TRUE, kt_env)

NextKlist == KlistRun \/ ListAllCcaches \/ ShowAllCcaches \/ DoCcache \/ DoKeytab

SpecKlist == InitKlist /\ [][NextKlist]_vars

-----------------------------------------------------------------------------
(* Names, stated without the code's scanning                               *)

HasColon(n) == \E i \in 1..Len(n) : n[i] = ":"

\* the 1-based place of the first ':' of a name that has one
FirstColon(n) == CHOOSE i \in 1..Len(n) : n[i] = ":" /\ \A j \in 1..(i - 1) : n[j] # ":"

BeforeColon(n) == SubSeq(n, 1, FirstColon(n) - 1)

AfterColon(n) == SubSeq(n, FirstColon(n) + 1, Len(n))

BeginsWith(n, p) == Len(n) >= Len(p) /\ \A i \in 1..Len(p) : n[i] = p[i]

FileCache(residual) == [type |-> FILE, name |-> residual]

MemoryCache(residual) == [type |-> MEMORY, name |-> residual]

-----------------------------------------------------------------------------
(* C1                                                                      *)

\* what resolve(n) is to return
ExpectedResolve(n) ==
    IF ~HasColon(n) THEN Ok(FileCache(n))
    ELSE IF Len(BeforeColon(n)) = 1 /\ is_ascii_alphabetic(n[1]) THEN Ok(FileCache(n))
    ELSE IF BeforeColon(n) = FILE THEN Ok(FileCache(AfterColon(n)))
    ELSE IF BeforeColon(n) = MEMORY THEN Ok(MemoryCache(AfterColon(n)))
    ELSE Err("KRB5_CC_UNKNOWN_TYPE")

C1_Dispatch == last.op = "resolve" => last.ret = ExpectedResolve(last.arg)

C1_NoCacheOnError ==
    (last'.op = "resolve" /\ ~last'.ret.ok) => memCaches' = memCaches

\* C1: resolve(name) uses FILE with the whole name when the name has no ':' or
\* when a single ASCII letter stands before its first ':', otherwise gives the
\* text after the first ':' to the backend named before it (FILE or MEMORY),
\* and for any other prefix returns KRB5_CC_UNKNOWN_TYPE and creates no cache.
C1_ResolveDispatch == []C1_Dispatch /\ [][C1_NoCacheOnError]_vars

\* after a MEMORY cache was registered, a drive-letter name was resolved to a
\* FILE cache of the whole name
C1_Witness ==
    /\ last.op = "resolve"
    /\ last.arg = <<"C", ":", "a">>
    /\ last.ret = Ok(FileCache(<<"C", ":", "a">>))
    /\ <<"a">> \in DOMAIN memCaches

-----------------------------------------------------------------------------
(* C2                                                                      *)

\* the name a lookup is to return from the state it starts in
ExpectedDefaultName ==
    IF ctx.default_ccname.some THEN Ok(ctx.default_ccname.val)
    ELSE IF env.some THEN Ok(env.val)
    ELSE IF profile.some THEN expand_path_tokens(profile.val, os)
    ELSE expand_path_tokens(DEFCCNAME, os)

C2_Order == last'.op = "default" => last'.name = ExpectedDefaultName

C2_WriteBack ==
    (last'.op = "default" /\ last'.name.ok) => ctx'.default_ccname = Some(last'.name.val)

C2_Sticky == (last.name.ok /\ last'.op = "default") => last'.name = last.name

\* C2: a default-name lookup returns the override, else KRB5CCNAME, else the
\* expanded profile value, else the expanded built-in name; a successful lookup
\* leaves the override equal to the returned name; and every later lookup, with
\* no explicit set_default_ccname in between, returns that same name whatever
\* KRB5CCNAME has become.
C2_DefaultName == [][C2_Order /\ C2_WriteBack /\ C2_Sticky]_vars

\* a lookup took the name from the profile, KRB5CCNAME was then set to another
\* name, and a later lookup still returned the profile's name
C2_Witness ==
    /\ last.op = "default"
    /\ profile = Some(MEMORY \o <<":","%","{","e","u","i","d","}">>)
    /\ last.name = Ok(MEMORY \o <<":","7">>)
    /\ env = Some(FILE \o <<":","a">>)
    /\ ctx.default_ccname = Some(MEMORY \o <<":","7">>)

-----------------------------------------------------------------------------
(* C10                                                                     *)

\* both backends have been asked and nothing is left to yield
Exhausted(it) ==
    it.ops_iter = Len(OPS_LIST) /\ (~it.inner.some \/ it.inner.val = <<>>)

\* the calls of the log that returned an item while backend b was the latest taken
Contributions(b) == {i \in 1..Len(cci.log) : cci.log[i].ret.some /\ cci.log[i].backend = b}

FileExists == os.file = "present"

C10_Order ==
    \A i, j \in 1..Len(cci.log) :
       (i < j /\ cci.log[i].ret.some /\ cci.log[j].ret.some)
          => cci.log[i].backend < cci.log[j].backend

C10_Memory ==
    (cci.live /\ Exhausted(cci.it)) =>
       (Contributions(2) # {} <=>
          (ctx.default_ccname.some /\ BeginsWith(ctx.default_ccname.val, MEMORY \o <<":">>)))

C10_Done ==
    (cci.live /\ Exhausted(cci.it) /\ Len(cci'.log) = Len(cci.log) + 1) =>
       (cci'.log[Len(cci'.log)].ret = None /\ Exhausted(cci'.it))

\* the first ':' of the name is its first or second byte
ColonInFirstTwo(n) == \E i \in 1..Min(2, Len(n)) : n[i] = ":"

C10_FileAmended ==
    (cci.live /\ Exhausted(cci.it)) =>
       (Contributions(1) # {} <=>
          /\ ctx.default_ccname.some
          /\ \/ BeginsWith(ctx.default_ccname.val, FILE \o <<":">>)
             \/ ~HasColon(ctx.default_ccname.val)
             \/ ColonInFirstTwo(ctx.default_ccname.val)
          /\ FileExists)

C10_FileOriginal ==
    (cci.live /\ Exhausted(cci.it)) =>
       (Contributions(1) # {} <=>
          /\ ctx.default_ccname.some
          /\ \/ BeginsWith(ctx.default_ccname.val, FILE \o <<":">>)
             \/ ~HasColon(ctx.default_ccname.val)
          /\ FileExists)

\* C10 (amended): the enumeration yields FILE's cache before MEMORY's and at
\* most one per backend; FILE yields its candidate iff the default name begins
\* with FILE:, or has no ':', or has a ':' among its first two bytes, and the
\* file exists; MEMORY yields iff the default name begins with MEMORY:; once
\* both backends are exhausted every further next() returns nothing.
C10_CachesIter ==
    [](C10_Order /\ C10_Memory /\ C10_FileAmended) /\ [][C10_Done]_vars

\* C10 as stated: FILE yields its candidate iff the default name begins with
\* FILE: or has no ':' at all, and the file exists.
C10_AsStated ==
    [](C10_Order /\ C10_Memory /\ C10_FileOriginal) /\ [][C10_Done]_vars

\* the default name is a drive-letter path whose file exists: FILE yielded it,
\* MEMORY yielded nothing, and a call after exhaustion returned nothing
C10_Witness ==
    /\ cci.live /\ Exhausted(cci.it)
    /\ FileExists
    /\ ctx.default_ccname = Some(<<"C", ":", "a">>)
    /\ Len(cci.log) = 3
    /\ cci.log[1] = [ret |-> Some(Ok(FileCache(<<"C", ":", "a">>))), backend |-> 1]
    /\ cci.log[2] = [ret |-> None, backend |-> 2]
    /\ cci.log[3] = [ret |-> None, backend |-> 2]

-----------------------------------------------------------------------------
(* Files, stated from what they hold                                       *)

DiskBytes == Bytes(file, os.native)

\* the number of bytes of the file that are on disk
DiskLen == IF file.cut = -1 THEN Len(FullBytes(file, os.native)) ELSE file.cut

\* the offset at which the k-th credential of the file ends as written
CredEnd(k) == Len(PrefixBytes(file, os.native)) + Len(CredentialBytes(file, os.native, k))

\* the file starts with 5 and a version from 1 to 4, as written
CacheFile == file.first = 5 /\ file.version \in 1..4

\* the credentials among the first k of the file that are not removed
Survivors(k) ==
    SelectSeq([i \in 1..k |-> file.creds[i]], LAMBDA cd : cd.kind # "removed")

IsCredential(item, cd) ==
    item.some /\ item.val.ok /\ item.val.val = Credential(file.version, cd)

IsError(ret, e) == ~ret.ok /\ ret.err = e

-----------------------------------------------------------------------------
(* C3                                                                      *)

OffsetsUnchanged ==
    ctx'.time_offset = ctx.time_offset /\ ctx'.usec_offset = ctx.usec_offset

\* C3: over any sequence of opens of version 4 files on one context, once
\* TOFFSET_VALID is set a later header leaves time_offset and usec_offset as
\* they are, and without SYNC_KDCTIME they are never modified.
C3_AsStated ==
    [][ /\ BitAnd(ctx.os_flags, KRB5_OS_TOFFSET_VALID) # 0 => OffsetsUnchanged
        /\ ~sync_kdctime(ctx) => OffsetsUnchanged ]_vars

\* one header whose second DELTATIME field replaced what its first installed
C3_Overwritten ==
    /\ file.header.fields = <<DeltaTime(1, 2), DeltaTime(3, 4)>> /\ file.cut = -1
    /\ last.op \in {"get_principal", "credentials_iter"} /\ last.ret.ok
    /\ ctx.time_offset = 3 /\ ctx.usec_offset = 4

-----------------------------------------------------------------------------
(* C4                                                                      *)

\* C4: time_offset_valid() is false on a new OsContext and true in every state
\* in which TOFFSET_VALID has been set by set_time_offset_valid().
C4_AsStated ==
    /\ ~time_offset_valid(NewContext(TRUE))
    /\ BitAnd(ctx.os_flags, KRB5_OS_TOFFSET_VALID) # 0 => time_offset_valid(ctx)

\* TOFFSET_VALID is set and time_offset_valid() is false
C4_SetButNotValid ==
    BitAnd(ctx.os_flags, KRB5_OS_TOFFSET_VALID) # 0 /\ ~time_offset_valid(ctx)

-----------------------------------------------------------------------------
(* C5                                                                      *)

\* C5: the iterator of a whole file yields the credentials that are not
\* removed, each in full, in the order of the file, and no credential after
\* them.
C5_AsStated ==
    (fci.live /\ CacheFile /\ file.cut = -1) =>
       \A i \in 1..Len(fci.log) :
          IF i <= Len(Survivors(Len(file.creds)))
          THEN IsCredential(fci.log[i], Survivors(Len(file.creds))[i])
          ELSE ~(fci.log[i].some /\ fci.log[i].val.ok)

\* a whole file of two live credentials whose iterator yielded the first and
\* then an error
C5_SecondLost ==
    /\ fci.live /\ file.cut = -1 /\ Len(Survivors(Len(file.creds))) = 2
    /\ Len(fci.log) >= 2
    /\ IsCredential(fci.log[1], file.creds[1])
    /\ fci.log[2].some /\ ~fci.log[2].val.ok

-----------------------------------------------------------------------------
(* C6                                                                      *)

\* C6: when a file of version 1 to 4 ends right after its default principal
\* or right after a complete credential, no call of next() returns an error,
\* and every call after the last surviving credential returns nothing.
C6_AsStated ==
    \A k \in 0..Len(file.creds) :
       (fci.live /\ CacheFile /\ DiskLen = CredEnd(k)) =>
          \A i \in 1..Len(fci.log) :
             /\ fci.log[i].some => fci.log[i].val.ok
             /\ i > Len(Survivors(k)) => ~fci.log[i].some

\* a whole version 1 file with one live credential whose iterator yielded it
\* and then KRB5_CC_FORMAT
C6_ErrorAtEnd ==
    /\ fci.live /\ file.version = 1 /\ file.cut = -1 /\ Len(Survivors(Len(file.creds))) = 1
    /\ Len(fci.log) >= 2
    /\ IsCredential(fci.log[1], Survivors(1)[1])
    /\ fci.log[2].some /\ IsError(fci.log[2].val, "KRB5_CC_FORMAT")

-----------------------------------------------------------------------------
(* C7                                                                      *)

\* C7: when a file ends strictly inside its k-th credential, the call of
\* next() that comes to that credential returns KRB5_CC_FORMAT.
C7_AsStated ==
    \A k \in 1..Len(file.creds) :
       ( /\ fci.live /\ CacheFile
         /\ CredEnd(k - 1) < DiskLen /\ DiskLen < CredEnd(k)
         /\ Len(fci.log) > Len(Survivors(k - 1)) ) =>
          /\ fci.log[Len(Survivors(k - 1)) + 1].some
          /\ IsError(fci.log[Len(Survivors(k - 1)) + 1].val, "KRB5_CC_FORMAT")

\* a file that ends strictly inside its only credential and whose iterator
\* returned nothing for it
C7_CleanEndInside ==
    /\ fci.live /\ CacheFile /\ Len(file.creds) = 1
    /\ CredEnd(0) < DiskLen /\ DiskLen < CredEnd(1)
    /\ Len(fci.log) >= 1 /\ ~fci.log[1].some

-----------------------------------------------------------------------------
(* C8                                                                      *)

\* the file ends before the end of the header it announces
HeaderCut == file.cut # -1 /\ file.cut < 4 + file.header.size

\* C8: for a version 4 file whose header fields tile the announced size the
\* reader stands at the default principal after the header (get_principal
\* returns it, credentials_iter stands behind it); a header that does not
\* tile (DELTATIME of another length than 8, 1 to 3 bytes left over, a field
\* longer than what is left) or that is shorter than announced fails with
\* KRB5_CC_FORMAT.
C8_AsStated ==
    (file.version = 4 /\ file.first = 5 /\ last.op \in {"get_principal", "credentials_iter"}) =>
       IF Tiles(file.header) /\ file.cut = -1
       THEN /\ last.ret.ok
            /\ last.op = "get_principal" => last.ret.val = DefaultPrincipal(4)
            /\ last.op = "credentials_iter" => last.ret.val.reader.off = CredEnd(0)
       ELSE (~Tiles(file.header) \/ HeaderCut) => IsError(last.ret, "KRB5_CC_FORMAT")

\* a version 4 file that ends inside the value of an unknown header field and
\* on which credentials_iter succeeded
C8_CutHeaderAccepted ==
    /\ file.version = 4 /\ file.first = 5 /\ Tiles(file.header) /\ HeaderCut
    /\ last.op = "credentials_iter" /\ last.ret.ok

-----------------------------------------------------------------------------
(* C9                                                                      *)

\* C9: opening a file as a cache fails with KRB5_CC_FORMAT when its first byte
\* is missing or not 5 or its second byte is missing, and with
\* KRB5_CCACHE_BADVNO when its second byte is not 1 to 4, and then yields no
\* principal and no iterator; opening it as a keytab succeeds exactly when it
\* starts with 5 and then 1 or 2, and otherwise fails with KRB5_KEYTAB_BADVNO.
C9_Magic ==
    /\ last.op \in {"get_principal", "credentials_iter"} =>
         /\ (Len(DiskBytes) < 2 \/ DiskBytes[1] # 5) =>
               IsError(last.ret, "KRB5_CC_FORMAT") /\ ~fci.live
         /\ (Len(DiskBytes) >= 2 /\ DiskBytes[1] = 5 /\ DiskBytes[2] \notin 1..4) =>
               IsError(last.ret, "KRB5_CCACHE_BADVNO") /\ ~fci.live
         /\ last.ret.ok => (Len(DiskBytes) >= 2 /\ DiskBytes[1] = 5 /\ DiskBytes[2] \in 1..4)
    /\ last.op = "entries_iter" =>
         /\ last.ret.ok <=> (Len(DiskBytes) >= 2 /\ DiskBytes[1] = 5 /\ DiskBytes[2] \in {1, 2})
         /\ ~last.ret.ok => last.ret.err = "KRB5_KEYTAB_BADVNO"

\* a whole file that starts with 5 and version 5 was refused as a cache
C9_Witness ==
    /\ last.op = "credentials_iter"
    /\ file.first = 5 /\ file.version = 5 /\ file.cut = -1
    /\ IsError(last.ret, "KRB5_CCACHE_BADVNO")

-----------------------------------------------------------------------------
(* The MEMORY registries, stated on handles                                *)

\* every handle some thread was returned, with the registry and name asked
Returned == UNION { { threads[t].rets[i] : i \in 1..Len(threads[t].rets) } : t \in Threads }

\* the object behind a handle is as create_memory_cache / create_memory_keytab
\* leaves it: it bears the name and holds nothing
EmptyObject(h, kind, name) ==
    /\ heap[h].kind = kind
    /\ heap[h].data.name = name
    /\ IF kind = "ccache"
       THEN heap[h].data.credentials = <<>> /\ ~heap[h].data.principal.some
       ELSE heap[h].data.entries = <<>>

\* no step removes an entry of a registry or puts another handle in its place
EntriesStay ==
    \A k \in Kinds, n \in MemNames : registry[k][n] # 0 => registry'[k][n] = registry[k][n]

\* two returns for the same name of the same registry are the same handle
SameNameSameHandle ==
    \A r1 \in Returned, r2 \in Returned :
       (r1.kind = r2.kind /\ r1.name = r2.name) => r1.handle = r2.handle

-----------------------------------------------------------------------------
(* C11                                                                     *)

C11_Registry ==
    /\ \A k \in Kinds, n \in MemNames :
          registry[k][n] # 0 => EmptyObject(registry[k][n], k, n)
    /\ \A r \in Returned : registry[r.kind][r.name] = r.handle
    /\ SameNameSameHandle
    /\ \A r1 \in Returned, r2 \in Returned :
          (r1.kind # r2.kind \/ r1.name # r2.name) => r1.handle # r2.handle

\* C11: with one thread, a resolve of a new name leaves an empty entry of that
\* name in the registry, every resolve returns the handle the registry holds
\* for the name (so later resolves return the same handle), different names
\* and registries have different handles, and no step removes or replaces an
\* entry.
C11_SingleThread == []C11_Registry /\ [][EntriesStay]_vars

\* the thread resolved a name twice and then another name
C11_Witness ==
    /\ Len(threads[1].rets) >= 3
    /\ threads[1].rets[1].kind = threads[1].rets[2].kind
    /\ threads[1].rets[1].name = threads[1].rets[2].name
    /\ threads[1].rets[3].kind = threads[1].rets[1].kind
    /\ threads[1].rets[3].name # threads[1].rets[1].name

-----------------------------------------------------------------------------
(* C12                                                                     *)

\* C12: when threads resolve the same name concurrently they are returned the
\* same handle, and the entry that was inserted first is never overwritten.
C12_AsStated == [][EntriesStay /\ SameNameSameHandle']_vars

\* two threads were returned different handles for one name of one registry
C12_TwoHandles ==
    \E r1 \in Returned, r2 \in Returned :
       r1.kind = r2.kind /\ r1.name = r2.name /\ r1.handle # r2.handle

-----------------------------------------------------------------------------
(* C13                                                                     *)

HoldsMap(t) == \E k \in Kinds : locks.map[k] = t

HoldsObject(t) == \E h \in 1..MaxHandles : locks.obj[h] = t

\* the thread is at a lock() whose Mutex another thread holds
Waits(t) ==
    \/ threads[t].pc \in {"lock_get", "lock_insert"} /\ locks.map[threads[t].kind] # 0
    \/ threads[t].pc = "lock_object" /\ locks.obj[threads[t].handle] # 0

C13_Order ==
    \A t \in Threads :
       /\ ~(HoldsMap(t) /\ HoldsObject(t))
       /\ threads[t].pc \in {"lock_get", "lock_insert", "lock_object"} =>
             ~HoldsMap(t) /\ ~HoldsObject(t)
       /\ threads[t].pc \in {"sync", "idle", "create"} => ~HoldsMap(t)

C13_NoDeadlock ==
    (\E t \in Threads : threads[t].pc # "idle") =>
       \E t \in Threads : threads[t].pc # "idle" /\ ~Waits(t)

\* C13: no thread holds a registry lock and an object lock together, none
\* asks for a lock while it holds one, the registry lock is released before
\* resolve goes on to the object, and whenever a call is under way some
\* thread with a call under way can take its next step.
C13_LockOrder == C13_Order /\ C13_NoDeadlock

\* one thread scans a shared entry under its lock while the other waits for
\* that lock
C13_Witness ==
    \E t \in Threads, u \in Threads :
       /\ t # u
       /\ threads[t].pc = "scan"
       /\ threads[u].pc = "lock_object"
       /\ threads[u].handle = threads[t].handle
       /\ locks.obj[threads[t].handle] = t

-----------------------------------------------------------------------------
(* Tickets of cache entries                                                *)

\* a configuration entry: the server's realm is X-CACHECONF: and its first
\* component is krb5_ccache_conf_data
ConfigEntry(cred) ==
    /\ cred.server.realm = <<88, 45, 67, 65, 67, 72, 69, 67, 79, 78, 70, 58>>
    /\ Len(cred.server.components) >= 1
    /\ cred.server.components[1] =
         <<107, 114, 98, 53, 95, 99, 99, 97, 99, 104, 101, 95, 99, 111, 110, 102, 95, 100, 97, 116, 97>>

GotTicket == last.op = "get_ticket"

\* C14: get_ticket() on a configuration entry returns absent and hands no
\* bytes to the ticket decoder, whatever the ticket field holds
C14_ConfigNoDecode ==
    GotTicket /\ ConfigEntry(last.arg) =>
        /\ last.ret.ret.ok /\ ~last.ret.ret.val.some
        /\ ~last.ret.decoded.some

\* get_ticket() has answered absent for a configuration entry whose value is
\* not the DER of a ticket
C14_Witness ==
    /\ GotTicket /\ ConfigEntry(last.arg)
    /\ ~decode_from(last.arg.ticket).ok
    /\ last.ret.ret.ok /\ ~last.ret.ret.val.some

\* C15: get_ticket() on a credential that is no configuration entry and whose
\* ticket bytes fail DER decoding yields absent, not an error
C15_AsStated ==
    GotTicket /\ ~ConfigEntry(last.arg) /\ ~decode_from(last.arg.ticket).ok =>
        last.ret.ret.ok /\ ~last.ret.ret.val.some

\* get_ticket() has returned the decoder's error for a service credential
C15_ErrorReturned ==
    /\ GotTicket /\ ~ConfigEntry(last.arg) /\ ~decode_from(last.arg.ticket).ok
    /\ last.arg.server = Server(4, [id |-> 1, kind |-> "service", pad |-> 0])
    /\ ~last.ret.ret.ok

-----------------------------------------------------------------------------
(* Runs of klist, stated from the cache on disk                            *)

\* klist has exited from a display of the cache file on disk, whose header
\* and default principal it has printed
ShownCache ==
    /\ klist.ran /\ klist.pc = "exit" /\ klist.entered = "do_ccache"
    /\ "s" \notin klist.given
    /\ "creds" \in DOMAIN file
    /\ Len(klist.out) >= 3

\* the credentials of the file the display is to visit: those not removed,
\* and of the configuration entries those -C asks for
ToDisplay(cd) == cd.kind # "removed" /\ (cd.kind = "config" => "C" \in klist.given)

\* the ticket of the credential is no configuration entry's and fails DER
\* decoding
BadTicket(cd) == cd.kind # "config" /\ ~decode_from(Credential(file.version, cd).ticket).ok

\* the records of credentials among what klist has printed
CredentialLines == SelectSeq(klist.out, LAMBDA r : r.line \in {"ticket", "config"})

\* the number of credentials to display among the first n of the file
RECURSIVE ToDisplayUpTo(_)
ToDisplayUpTo(n) ==
    IF n = 0 THEN 0 ELSE ToDisplayUpTo(n - 1) + (IF ToDisplay(file.creds[n]) THEN 1 ELSE 0)

\* C16: when the display of a cache has met a credential whose ticket fails
\* decoding, every later credential of that cache that is not removed has
\* still been visited and displayed when klist exits
C16_AsStated ==
    ShownCache =>
        \A i \in 1..Len(file.creds), j \in 1..Len(file.creds) :
           i < j /\ ToDisplay(file.creds[i]) /\ BadTicket(file.creds[i]) /\ ToDisplay(file.creds[j])
             => Len(CredentialLines) >= ToDisplayUpTo(j)

\* klist has exited with an error and no credential displayed from a cache
\* whose first credential fails decoding and whose second is a service ticket
C16_ScanEnded ==
    /\ ShownCache
    /\ Len(file.creds) = 2
    /\ BadTicket(file.creds[1]) /\ file.creds[2].kind = "service"
    /\ CredentialLines = <<>>
    /\ klist.exit = 1

\* klist -s has exited from check_ccache on the cache file on disk
CheckedCache ==
    /\ klist.ran /\ klist.pc = "exit" /\ klist.entered = "do_ccache"
    /\ "s" \in klist.given
    /\ klist.name = None
    /\ "creds" \in DOMAIN file /\ file.cut = -1
    /\ os.file = "present"

\* the credentials of the file that are not removed
Kept == {i \in 1..Len(file.creds) : file.creds[i].kind # "removed"}

\* a ticket for krbtgt/R@R, R being the realm of the default principal
LocalTgt(cd) == cd.kind \in {"tgt", "old_tgt"}

\* the end time of a credential of the file is later than now
Unexpired(cd, now) == Credential(file.version, cd).times.endtime > now

\* the rule of check_ccache in the words of the claim
ValidCache(now) ==
    \/ /\ \E i \in Kept : LocalTgt(file.creds[i])
       /\ \E i \in Kept : LocalTgt(file.creds[i]) /\ Unexpired(file.creds[i], now)
    \/ /\ ~\E i \in Kept : LocalTgt(file.creds[i])
       /\ \E i \in Kept : file.creds[i].kind # "config" /\ Unexpired(file.creds[i], now)

\* C17: check_ccache succeeds iff, over the credentials that are not removed,
\* a local TGT exists and one such TGT ends later than now, or no local TGT
\* exists and some credential that is no configuration entry ends later
\* than now
C17_AsStated == CheckedCache => (klist.ret.ok <=> ValidCache(klist.now))

\* the rule holds on the caches of the versions 2 to 4
C17_LaterVersions == CheckedCache /\ file.version >= 2 => (klist.ret.ok <=> ValidCache(klist.now))

\* check_ccache has failed on a version 1 cache whose only credential is a
\* local TGT that ends later than now
C17_ValidRefused ==
    /\ CheckedCache /\ file.version = 1
    /\ Len(file.creds) = 1 /\ file.creds[1].kind = "tgt"
    /\ klist.now < 7
    /\ ~klist.ret.ok

-----------------------------------------------------------------------------
(* The options of klist                                                    *)

\* keytab mode is -k; every other run is in ccache mode
KeytabMode(given) == "k" \in given

\* the flag combinations of the claim
Rejected(given) ==
    \/ {"c", "k"} \subseteq given
    \/ "n" \in given /\ "a" \notin given
    \/ ~KeytabMode(given) /\ given \cap {"t", "K"} # {}
    \/ ~KeytabMode(given) /\ ({"A", "l"} \subseteq given \/ {"s", "l"} \subseteq given)
    \/ KeytabMode(given) /\ given \cap {"f", "s", "a", "A", "l"} # {}

\* the function of the mode the options select
Selected(given) ==
    IF KeytabMode(given) THEN "do_keytab"
    ELSE IF "l" \in given THEN "list_all_ccaches"
    ELSE IF "A" \in given THEN "show_all_ccaches"
    ELSE "do_ccache"

UsageError == Err("Usage: klist")

\* C18: klist rejects with the usage error, before any context, cache or
\* keytab is opened, every combination with -c and -k, with -n without -a,
\* with -t or -K outside keytab mode, with -A and -l or -s and -l in ccache
\* mode, or with one of -f, -s, -a, -A, -l in keytab mode; every other
\* combination proceeds to the selected mode
C18_Usage ==
    klist.ran /\ klist.pc # "run" =>
        IF Rejected(klist.given)
        THEN /\ klist.pc = "exit" /\ klist.ret = UsageError /\ klist.exit = 1
             /\ ~klist.inited /\ klist.entered = "-" /\ klist.out = <<>>
             /\ ctx = NewContext(FALSE) /\ memCaches = <<>>
        ELSE /\ klist.ret # UsageError
             /\ klist.profile_ok =>
                  /\ klist.inited
                  /\ IF klist.pc = "exit" THEN klist.entered = Selected(klist.given)
                     ELSE klist.pc = Selected(klist.given)

\* klist -k -s has exited with the usage error, and nothing was opened
C18_Witness ==
    /\ klist.ran /\ klist.pc = "exit"
    /\ klist.given = {"k", "s"}
    /\ klist.ret = UsageError
    /\ ~klist.inited /\ klist.entered = "-"

-----------------------------------------------------------------------------
(* klist -l                                                                *)

\* klist -l has exited from list_all_ccaches
ListedAll == klist.ran /\ klist.pc = "exit" /\ klist.entered = "list_all_ccaches"

\* the lines of the listing below its two header lines
CacheLines == SelectSeq(klist.out, LAMBDA r : r.line = "cache")

\* the context run hands to list_all_ccaches
RunContext ==
    IF klist.name.some THEN set_default_ccname(NewContext(klist.kdc_timesync), klist.name.val)
    ELSE NewContext(klist.kdc_timesync)

\* the caches the enumeration yields to list_all_ccaches
Enumerated == caches_loop([ctx |-> RunContext, reg |-> <<>>, it |-> NewCachesIter], World).caches

\* with a nonexistent default cache the listing is empty and the exit status 1
C19_Absent ==
    ListedAll /\ klist.name = None /\ os.file = "absent" =>
        CacheLines = <<>> /\ klist.exit = 1

\* with one valid cache that cache is listed without (Expired) and the exit
\* status is 0
C19_OneValid ==
    ListedAll /\ klist.name = None /\ os.file = "present"
      /\ "creds" \in DOMAIN file /\ file.cut = -1 /\ ValidCache(klist.now) =>
        /\ Len(CacheLines) = 1
        /\ ~CacheLines[1].expired
        /\ klist.exit = 0

\* one line is printed per enumerated cache, and it says (Expired) exactly
\* when check_ccache fails for that cache
C19_Lines ==
    ListedAll =>
        /\ Len(CacheLines) = Len(Enumerated)
        /\ \A i \in 1..Len(CacheLines) :
             /\ i <= Len(Enumerated) => CacheLines[i].cache = get_full_name(Enumerated[i])
             /\ i <= Len(Enumerated) =>
                  (CacheLines[i].expired
                     <=> ~check_ccache(RunContext, <<>>, Enumerated[i], Disk, klist.now).ret.ok)

\* C19: klist -l with a nonexistent default cache prints an empty listing and
\* exits with 1; with one valid cache it lists that cache without (Expired)
\* and exits with 0; in general it prints one line per enumerated cache, with
\* (Expired) exactly when check_ccache fails for that cache
C19_AsStated == C19_Absent /\ C19_OneValid /\ C19_Lines

\* klist -l has listed a version 1 cache whose only credential is a local
\* TGT that ends later than now as expired
C19_ValidExpired ==
    /\ ListedAll /\ klist.name = None /\ os.file = "present"
    /\ "creds" \in DOMAIN file /\ file.version = 1 /\ file.cut = -1
    /\ Len(file.creds) = 1 /\ file.creds[1].kind = "tgt" /\ klist.now < 7
    /\ Len(CacheLines) = 1 /\ CacheLines[1].expired

\* klist -l has printed no line for an enumerated cache
C19_NoLine == ListedAll /\ Len(Enumerated) = 1 /\ CacheLines = <<>>

-----------------------------------------------------------------------------
(* Keytab names                                                            *)

KtResolved == last.op = "kt_resolve"

\* the names taken whole as the name of a FILE keytab
WholeName(n) ==
    \/ ~HasColon(n)
    \/ n[1] = "/"
    \/ FirstColon(n) = 2 /\ is_ascii_alphabetic(n[1])

\* Keytab::resolve gave a keytab read from the file called name, through
\* the resolve of the backend called prefix
FileKeytab(prefix, name) ==
    /\ last.name = Ok(prefix)
    /\ last.ret.ok /\ last.ret.val.ops.kind = "FILE" /\ last.ret.val.name = name

\* Keytab::resolve gave the keytab MEMORY_KEYTABS holds under name
MemoryKeytab(name) ==
    /\ last.name = Ok(MEMORY)
    /\ last.ret.ok /\ last.ret.val.ops.kind = "MEMORY" /\ last.ret.val.name = name
    /\ name \in DOMAIN registry.keytab /\ registry.keytab[name].name = name

\* C20: Keytab::resolve takes a name with no ':', a name that starts with
\* '/' and a name with a single ASCII letter before its first ':' as a FILE
\* keytab named by the whole input; every other name is split once at the
\* first ':' and dispatched to FILE, WRFILE or MEMORY by the prefix, and any
\* other prefix fails with KRB5_KT_UNKNOWN_TYPE
C20_Dispatch ==
    KtResolved =>
        IF WholeName(last.arg) THEN FileKeytab(FILE, last.arg)
        ELSE IF BeforeColon(last.arg) = FILE
        THEN FileKeytab(FILE, SubSeq(last.arg, FirstColon(last.arg) + 1, Len(last.arg)))
        ELSE IF BeforeColon(last.arg) = WRFILE
        THEN FileKeytab(WRFILE, SubSeq(last.arg, FirstColon(last.arg) + 1, Len(last.arg)))
        ELSE IF BeforeColon(last.arg) = MEMORY
        THEN MemoryKeytab(SubSeq(last.arg, FirstColon(last.arg) + 1, Len(last.arg)))
        ELSE last.ret = Err("KRB5_KT_UNKNOWN_TYPE")

\* the name /t:a, a path with a ':' in it, resolved to the FILE keytab /t:a
C20_Witness ==
    /\ KtResolved
    /\ last.arg = <<"/", "t", ":", "a">>
    /\ FileKeytab(FILE, <<"/", "t", ":", "a">>)

-----------------------------------------------------------------------------
(* Names of keytabs                                                        *)

KtGotName == last.op = "kt_get_name"

\* the names 'T:residual' with T one of the three backends
BackendName(n) == HasColon(n) /\ BeforeColon(n) \in {FILE, WRFILE, MEMORY}

\* what get_name is to return for the keytab of the name n
NameWithin(n, length) == IF Len(n) > length THEN Err("KRB5_KT_NAME_TOOLONG") ELSE Ok(n)

\* C21: for every 'T:residual' with T one of FILE, WRFILE and MEMORY, resolve
\* followed by get_name(limit) returns the original string, and fails with
\* KRB5_KT_NAME_TOOLONG exactly when that string is longer than limit
C21_AsStated ==
    KtGotName /\ BackendName(last.arg) => last.ret = NameWithin(last.arg, last.length)

\* the part of C21 on the backends FILE and MEMORY
C21_FileMemory ==
    KtGotName /\ HasColon(last.arg) /\ BeforeColon(last.arg) \in {FILE, MEMORY}
        => last.ret = NameWithin(last.arg, last.length)

\* the keytab resolved from WRFILE:a names itself FILE:a
C21_WrfileAsFile ==
    /\ KtGotName
    /\ last.arg = WRFILE \o <<":", "a">>
    /\ last.ret = Ok(FILE \o <<":", "a">>)

\* WRFILE:a, of 8 bytes, is returned as FILE:a under a limit of 6
C21_WrfileWithin ==
    /\ KtGotName
    /\ last.arg = WRFILE \o <<":", "a">>
    /\ last.length = 6
    /\ last.ret.ok

-----------------------------------------------------------------------------
(* Keytab files, stated from the records they hold                         *)

\* the byte order the keytab on disk is written in
KtOrder == IF file.version = 1 THEN os.native ELSE "Big"

\* the offset of the length field of record i, and the offset after the record
KtRecordStart(i) ==
    2 + Len(Concat([j \in 1..(i - 1) |-> enc_kt_record(file.version, KtOrder, file.records[j])]))

KtRecordEnd(i) == KtRecordStart(i) + Len(enc_kt_record(file.version, KtOrder, file.records[i]))

\* the bytes of record rd after its keyblock, and its 32-bit key version: the
\* first four of them, if there are as many
KtTrailing(rd) == (IF rd.vno32 = -1 THEN 0 ELSE 4) + rd.slack

KtVno32(rd) == IF rd.vno32 = -1 THEN 0 ELSE rd.vno32

\* the key version of the entry of record rd
KtVno(rd) == IF KtTrailing(rd) >= 4 /\ KtVno32(rd) # 0 THEN KtVno32(rd) ELSE rd.id

\* what the iteration from record i on is to return, call by call, and the
\* offset of the length field that is read next
RECURSIVE KtWalk(_)
KtWalk(i) ==
    IF i > Len(file.records) THEN <<[ret |-> None, off |-> KtRecordStart(i)]>>
    ELSE IF file.records[i].kind = "hole" THEN KtWalk(i + 1)
    ELSE IF file.records[i].kind = "end" THEN <<[ret |-> None, off |-> KtRecordEnd(i)]>>
    ELSE IF file.records[i].kind = "min"
    THEN <<[ret |-> Some(Err("KRB5_KT_FORMAT")), off |-> KtRecordEnd(i)]>>
    ELSE <<[ ret |-> Some(Ok([KtEntry(file.version, file.records[i]) EXCEPT !.vno = KtVno(file.records[i])])),
             off |-> KtRecordEnd(i) ]>> \o KtWalk(i + 1)

\* the calls of next() so far returned what the records say
KtAsRecords ==
    \A k \in 1..Min(Len(fci.log), Len(KtWalk(1))) :
        /\ fci.log[k].ret = KtWalk(1)[k].ret
        /\ fci.log[k].ret.some => fci.log[k].off = KtWalk(1)[k].off

KtIterating == fci.live /\ "records" \in DOMAIN file

\* every key of the keytab has a byte and fits into the buffer of the reader
KtUsual == \A i \in 1..Len(file.records) : file.records[i] \notin KtUnusual

\* C22: entries_iter yields exactly the live records in file order and skips
\* every hole; after a live record of declared size s that starts at p the
\* next length is read at p + s, after a hole -size bytes further; a length
\* of 0 or the end of the file ends the iteration, and a length of i32::MIN
\* fails with KRB5_KT_FORMAT
C22_AsStated == KtIterating => KtAsRecords

\* the same on keytabs whose keys have a byte and fit into the buffer
C22_UsualKeys == KtIterating /\ KtUsual => KtAsRecords

\* next() returned None where a live record is due: the entry of the key
\* of 8192 bytes, the first record of a version 2 keytab
C22_LargeLost ==
    /\ KtIterating
    /\ file.version = 2
    /\ Len(file.records) >= 1
    /\ file.records[1] = KtLive(2, BufCapacity, -1, 0)
    /\ Len(fci.log) = 1
    /\ fci.log[1].ret = None

\* next() returned None where a live record is due: the entry with the key of
\* no byte
C22_EmptyKeyLost ==
    /\ KtIterating
    /\ file.version = 2
    /\ Len(file.records) >= 1
    /\ file.records[1] = KtLive(2, 0, -1, 0)
    /\ Len(fci.log) = 1
    /\ fci.log[1].ret = None

\* the records of the keytab that are entries, and the entries next() has
\* returned, both in order
KtLiveRecords == SelectSeq(file.records, LAMBDA rd : rd.kind = "entry")

KtYielded == SelectSeq(fci.log, LAMBDA item : item.ret.some /\ item.ret.val.ok)

\* C23: the 32-bit key version of a keytab entry is read iff at least 4
\* bytes of the record's declared size remain after the keyblock; the entry's
\* vno is that value when it was read and is not zero, and the 8-bit vno in
\* every other case
C23_Vno ==
    KtIterating =>
        /\ Len(KtYielded) <= Len(KtLiveRecords)
        /\ \A k \in 1..Len(KtYielded) :
             KtYielded[k].ret.val.val.vno =
                 IF KtTrailing(KtLiveRecords[k]) < 4 THEN KtLiveRecords[k].id
                 ELSE IF KtLiveRecords[k].vno32 \in {-1, 0} THEN KtLiveRecords[k].id
                 ELSE KtLiveRecords[k].vno32

\* the 8-bit vno 7 with the 32-bit vno 11 gave 11, with the 32-bit vno 0 it
\* gave 7, and with three zero bytes before a hole it gave 7
C23_Witness ==
    /\ KtIterating
    /\ file.version = 2
    /\ file.records = <<KtLive(7, 2, 11, 0), KtLive(7, 2, 0, 0), KtLive(7, 2, -1, 3)>>
    /\ Len(KtYielded) = 3
    /\ KtYielded[1].ret.val.val.vno = 11
    /\ KtYielded[2].ret.val.val.vno = 7
    /\ KtYielded[3].ret.val.val.vno = 7

-----------------------------------------------------------------------------
(* Principals and their names                                              *)

\* the name given carries an explicit realm and no escape
ExplicitRealm(n) == \E i \in 1..Len(n) : n[i] = REALM_SEP

NoEscape(n) == \A i \in 1..Len(n) : n[i] # BACKSLASH

\* unparse(parse(s)) == s for the names with an explicit realm and no escape
\* that parse_name accepts with flags 0
C24_NameRoundTrip ==
    /\ last.op = "reunparsed"
    /\ last.arg.flags = 0
    /\ ExplicitRealm(last.arg.given)
    /\ NoEscape(last.arg.given)
    => last.name = Ok(last.arg.given)

\* parse(unparse(p)) is a principal equal to p under compare flags 0, for
\* every principal p
C24_PrincipalRoundTrip ==
    /\ last.op = "unparsed" => last.name.ok
    /\ last.op = "reparsed" => last.ret.ok
    /\ last.op = "compared" => last.equal

\* C24: for every string s that carries an explicit realm and no escapes and
\* that parse_name accepts with flags 0, unparse_name(parse_name(s), 0) == s;
\* and for every principal p, parse_name(unparse_name(p, 0), 0) yields a
\* principal equal to p under compare flags 0
C24_AsStated == C24_NameRoundTrip /\ C24_PrincipalRoundTrip

\* the principal of the one component a/b in the realm R came back from
\* parse_name(unparse_name(p)) with the two components a and b, and unequal
C24_ComponentSplit ==
    /\ last.op = "compared"
    /\ last.arg.given.components = << <<97, COMPONENT_SEP, 98>> >>
    /\ last.arg.given.realm = <<82>>
    /\ last.name = Ok(<<97, COMPONENT_SEP, 98, REALM_SEP, 82>>)
    /\ last.ret.val.components = << <<97>>, <<98>> >>
    /\ ~last.equal

PrParsed == last.op = "parsed" /\ last.ret.ok

\* the flags ask for a principal without a realm
NoRealmAsked(flags) ==
    BitAnd(flags, BitOr(PARSE_NO_REALM, BitOr(PARSE_IGNORE_REALM, PARSE_NO_DEF_REALM))) # 0

\* C25: every principal returned by a successful parse_name has components
\* that are all non-empty, and a realm that is empty only when the flags ask
\* for no realm (NO_REALM, IGNORE_REALM or NO_DEF_REALM)
C25_AsStated ==
    PrParsed =>
        /\ \A i \in 1..Len(last.ret.val.components) : last.ret.val.components[i] # <<>>
        /\ last.ret.val.realm = <<>> => NoRealmAsked(last.arg.flags)

\* a name without '@' parsed without such a flag has the default realm of the
\* context, which is not empty
C25_DefaultRealm ==
    PrParsed /\ ~ExplicitRealm(last.arg.given) /\ ~NoRealmAsked(last.arg.flags)
        => last.ret.val.realm = last.arg.default_realm /\ last.ret.val.realm # <<>>

\* parse_name("/a@a", 0) returned a principal whose first component is empty
C25_EmptyComponent ==
    /\ PrParsed
    /\ last.arg.given = <<COMPONENT_SEP, 97, REALM_SEP, 97>>
    /\ last.arg.flags = 0
    /\ last.ret.val.components = << <<>>, <<97>> >>

\* parse_name("a@", 0) returned a principal whose realm is empty
C25_EmptyRealm ==
    /\ PrParsed
    /\ last.arg.given = <<97, REALM_SEP>>
    /\ last.arg.flags = 0
    /\ last.ret.val.realm = <<>>

-----------------------------------------------------------------------------
(* Reading a cache twice                                                   *)

Reread == "before" \in DOMAIN fci

\* C26: two successive credentials_iter scans of the unchanged file yield
\* identical sequences of non-removed credentials, whatever Context state
\* each scan starts from; each call to credentials_iter starts again from the
\* first credential
C26_Reread ==
    Reread =>
        /\ fci.live
        /\ \A k \in 1..Min(Len(fci.log), Len(fci.before)) : fci.log[k] = fci.before[k]
        /\ Len(fci.log) >= 1 /\ Len(Survivors(Len(file.creds))) >= 1
             => IsCredential(fci.log[1], Survivors(Len(file.creds))[1])

\* a version 4 file of a removed and a live credential was read to its end
\* twice through a context that the first scan gave a time offset and that
\* was given a default name in between: both scans returned the live
\* credential and then nothing
C26_Witness ==
    /\ Reread
    /\ file.version = 4
    /\ Len(file.creds) = 2 /\ file.creds[1].kind = "removed" /\ file.creds[2].kind = "live"
    /\ ctx.time_offset = 1
    /\ ctx.default_ccname.some
    /\ Len(fci.before) = 2 /\ Len(fci.log) = 2
    /\ IsCredential(fci.log[1], file.creds[2])
    /\ fci.log[2] = None
    /\ fci.before = fci.log

-----------------------------------------------------------------------------
(* The MEMORY caches of the registry                                       *)

\* the cache holds no default principal, no credential and zero offsets
StillEmpty(cache) ==
    /\ ~cache.principal.some
    /\ cache.credentials = <<>>
    /\ cache.time_offset = 0
    /\ cache.usec_offset = 0

\* C27: after any sequence of resolve, default, get_principal,
\* credentials_iter and credential_caches_iter every MEMORY cache of the
\* registry still has no default principal, no credentials and zero time
\* offsets; get_principal on a MEMORY cache fails with KRB5_FCC_NOFILE and its
\* credentials_iter yields nothing
C27_Empty ==
    /\ \A name \in DOMAIN memCaches : memCaches[name].name = name /\ StillEmpty(memCaches[name])
    /\ last.op = "get_principal" => last.ret = Err("KRB5_FCC_NOFILE")
    /\ last.op = "credentials_iter" =>
         last.ret.ok /\ last.ret.val.items = <<>> /\ last.ret.val.end.ok

\* get_principal failed on the cache MEMORY:a, made by the enumeration of a
\* context that holds a time offset, with MEMORY:b resolved as well
C27_Witness ==
    /\ last.op = "get_principal"
    /\ last.arg = <<"a">>
    /\ last.ret = Err("KRB5_FCC_NOFILE")
    /\ DOMAIN memCaches = {<<"a">>, <<"b">>}
    /\ ctx.time_offset = 3
    /\ sync_kdctime(ctx)

-----------------------------------------------------------------------------
(* Configuration entries                                                   *)

\* get_config was called on a credential that is_config() holds for
ConfigAsked == last.op = "get_config" /\ last.is_config

\* the triple the entry carries: key, principal when present, and value
ConfigTriple(cred) ==
    [ key       |-> cred.server.components[2],
      principal |-> IF Len(cred.server.components) >= 3
                    THEN Some(cred.server.components[3]) ELSE None,
      value     |-> cred.ticket ]

\* C28: for every credential for which is_config() is true get_config()
\* returns the triple (key = server.components[1], principal =
\* server.components[2] when present, value = ticket) and never fails or
\* panics, also for an entry read from a file whose server has the single
\* component krb5_ccache_conf_data
C28_AsStated ==
    ConfigAsked =>
      /\ last.ret.ok
      /\ last.ret.val.some
      /\ Len(last.arg.server.components) >= 2 => last.ret.val.val = ConfigTriple(last.arg)

\* the same for the entries whose server has a key after krb5_ccache_conf_data
C28_WithKey ==
    ConfigAsked /\ Len(last.arg.server.components) >= 2 =>
      last.ret = Ok(Some(ConfigTriple(last.arg)))

\* get_config did not return on an entry read from a file whose server is
\* krb5_ccache_conf_data alone
C28_OneComponent ==
    /\ ConfigAsked
    /\ last.arg.server.components = <<as_bytes(CONF_NAME)>>
    /\ ~last.ret.ok
    /\ Len(fci.log) = 2

-----------------------------------------------------------------------------
(* The enumeration and the default cache                                   *)

\* the items the enumeration has yielded
Yielded == {cci.log[i].ret.val : i \in {j \in 1..Len(cci.log) : cci.log[j].ret.some}}

\* the cache CredentialCache::default opens for the context: the default
\* name is the override, which the enumeration has written back
DefaultCache == ExpectedResolve(ctx.default_ccname.val)

\* C29: whenever credential_caches_iter yields a cache it is the cache that
\* CredentialCache::default would open for that context: it is yielded as a
\* success and has the same backend type and the same name, for every default
\* name, also FILE names whose path holds a ':' and names with a one-byte
\* prefix
C29_AsStated ==
    \A item \in Yielded :
       /\ ctx.default_ccname.some
       /\ item.ok
       /\ item = DefaultCache

\* the path of a FILE name holds no ':' other than the one after a drive
\* letter
PlainPath(path) ==
    \/ ~HasColon(path)
    \/ Len(BeforeColon(path)) = 1 /\ is_ascii_alphabetic(path[1])

\* the same for MEMORY names, for names with no prefix and for FILE names
\* with such a path
C29_PlainPaths ==
    \A item \in Yielded :
       /\ ctx.default_ccname.some
       /\ \/ BeginsWith(ctx.default_ccname.val, MEMORY \o <<":">>)
          \/ PlainPath(ctx.default_ccname.val)
          \/ /\ BeginsWith(ctx.default_ccname.val, FILE \o <<":">>)
             /\ PlainPath(AfterColon(ctx.default_ccname.val))
          => item.ok /\ item = DefaultCache

\* CredentialCache::default returned what DefaultCache states
C29_DefaultAsStated ==
    (last.op = "default" /\ ctx.default_ccname.some) => last.ret = DefaultCache

\* with the default name FILE:MEMORY:x the enumeration yielded the MEMORY
\* cache x, and default then opened the FILE cache MEMORY:x
C29_OtherCache ==
    /\ last.op = "default"
    /\ ctx.default_ccname = Some(FILE \o <<":">> \o MEMORY \o <<":", "x">>)
    /\ last.ret = Ok(FileCache(MEMORY \o <<":", "x">>))
    /\ DOMAIN memCaches = {<<"x">>}

\* with the default name FILE:/t/a:b the enumeration yielded an error item
C29_ErrorItem ==
    /\ ctx.default_ccname = Some(FILE \o <<":", "/", "t", "/", "a", ":", "b">>)
    /\ Yielded = {Err("KRB5_CC_UNKNOWN_TYPE")}
    /\ DefaultCache = Ok(FileCache(<<"/", "t", "/", "a", ":", "b">>))

-----------------------------------------------------------------------------
(* Fields and the reads that return them                                   *)

\* where the i-th field of the file begins and ends
RECURSIVE FieldStart(_)
FieldStart(i) ==
    IF i = 1 THEN 0
    ELSE FieldStart(i - 1) + Len(FieldBytes(file.order, file.fields[i - 1]))

FieldEnd(i) == FieldStart(i) + Len(FieldBytes(file.order, file.fields[i]))

\* the number of bytes of the file on disk
FieldsLen == IF file.cut = -1 THEN FieldEnd(Len(file.fields)) ELSE file.cut

\* the i-th field is completely present in the file
Present(i) == FieldEnd(i) <= FieldsLen

\* the read of the i-th field returned its full value
Decoded(i) ==
    fci.log[i].ret =
      Ok(Some(IF file.fields[i].kind = "int" THEN file.fields[i].value
              ELSE [k \in 1..file.fields[i].len |-> file.fields[i].value]))

\* the reads so far began where the fields begin
FieldReads == fci.live /\ \A i \in 1..Len(fci.log) : fci.log[i].off = FieldStart(i)

\* C30: the readers report a short read only at true end of file: every
\* integer field and every length-prefixed data field that is completely
\* present in the file is decoded with its full value at whatever offset it
\* lies, also when it straddles the end of the reader's buffer
C30_AsStated ==
    FieldReads => \A i \in 1..Len(fci.log) : Present(i) => Decoded(i)

\* the same for the fields that end within the first BufCapacity bytes of
\* the file
C30_WithinBuffer ==
    FieldReads =>
      \A i \in 1..Len(fci.log) : (Present(i) /\ FieldEnd(i) <= BufCapacity) => Decoded(i)

\* a field that is not completely present is never returned
C30_TrueEnd ==
    FieldReads =>
      \A i \in 1..Len(fci.log) : ~Present(i) => ~(fci.log[i].ret.ok /\ fci.log[i].ret.val.some)

\* a 32-bit integer that begins 2 bytes before the end of the buffer, in a
\* whole file, was returned as None
C30_StraddleLost ==
    /\ FieldReads
    /\ file.cut = -1
    /\ Len(fci.log) = 2
    /\ file.fields[2] = IntField(4, TRUE, -2)
    /\ FieldStart(2) = BufCapacity - 2
    /\ Decoded(1)
    /\ fci.log[2].ret = Ok(None)

\* the data of a keytab that reach beyond the buffer, in a whole file, were
\* returned as None
C30_LongDataLost ==
    /\ FieldReads
    /\ file.cut = -1
    /\ Len(fci.log) = 1
    /\ file.fields[1] = DataField(2, BufCapacity)
    /\ fci.log[1].ret = Ok(None)

====
